---- MODULE Spec2Model ----
(***************************************************************************)
(* Kancha AI (src/app.py): the request-rate limiter guarding the model     *)
(* call, the script classifier (LanguageDetector), the FAQ lookups         *)
(* (FAQHandler, and FAQSearcher of src/faq_search.py), the response        *)
(* sanitizer (ResponseProcessor) and the router process_user_message.      *)
(*                                                                         *)
(* Time is counted in half seconds, so that the 0.5 s sleep margin of      *)
(* wait_if_needed is one unit.  Computation takes no time: the clock moves *)
(* only between calls and while a caller sleeps.                           *)
(***************************************************************************)
EXTENDS Integers, Sequences, FiniteSets, TLC

VARIABLES
    clock,              \* datetime.now(), in half seconds
    calls_per_minute,   \* RateLimiter.calls_per_minute, per limiter
    calls,              \* RateLimiter.calls, per limiter
    lim,                \* the limiter a caller thread uses (0: none yet)
    pc,                 \* each caller's position in the method it runs
    now,                \* local `now` of the running method
    seen,               \* self.calls as the list comprehension read it
    filtered,           \* value of the list comprehension, before it is stored
    oldest,             \* local `oldest`
    wake,               \* instant at which time.sleep returns
    ret,                \* value the finished method hands to its caller
    admissions,         \* every return of wait_if_needed, in order
    ticks,              \* number of times the clock was advanced between calls
    text,               \* argument of LanguageDetector.detect
    tag,                \* its result
    user_query,         \* query handed to an FAQ lookup
    language,           \* language handed to an FAQ lookup
    similarity,         \* cosine of the query with each entry of faq_data, in order
    faq_similarity,     \* best cosine of the query with the questions of FAQ_DATA
    lookup,             \* the last FAQ lookup made and what it returned
    previous,           \* the FAQ lookup made before it
    response,           \* argument of ResponseProcessor.clean
    cleaned,            \* clean(response)
    recleaned,          \* clean(clean(response))
    messages,           \* st.session_state.messages
    query_history,      \* st.session_state.query_history
    stage,              \* position of process_user_message
    typed,              \* the text process_user_message was called with
    user_input,         \* local user_input of process_user_message
    script,             \* local script of process_user_message
    trace,              \* calls process_user_message has made to its collaborators
    banner,             \* text shown by st.error
    outcome,            \* how the last run of process_user_message ended
    api_key,            \* GEMINI_API_KEY as the deployment has it
    chat_manager,       \* st.session_state.chat_manager
    web_query,          \* the query WebSearcher.search is called with
    max_results,        \* its second argument
    search_pc,          \* the provider WebSearcher.search is to ask next
    search_queries,     \* rewritten queries _search_political_info has yet to try
    invoked,            \* the provider calls search has made, with what came of each
    results             \* local results, and at the end what search returns

limiterVars == <<clock, calls_per_minute, calls, lim, pc, now, seen, filtered,
                 oldest, wake, ret, admissions, ticks>>
detectVars == <<text, tag>>
faqVars == <<user_query, language, similarity, faq_similarity, lookup, previous>>
cleanVars == <<response, cleaned, recleaned>>
routerVars == <<messages, query_history, stage, typed, user_input, script, trace,
                banner, outcome, api_key, chat_manager>>
searchVars == <<web_query, max_results, search_pc, search_queries, invoked, results>>
pipelineVars == <<faqVars, cleanVars, routerVars, searchVars>>
vars == <<clock, calls_per_minute, calls, lim, pc, now, seen, filtered, oldest,
          wake, ret, admissions, ticks, text, tag, user_query, language,
          similarity, faq_similarity, lookup, previous, response, cleaned,
          recleaned, messages, query_history, stage, typed, user_input, script,
          trace, banner, outcome, api_key, chat_manager, web_query, max_results,
          search_pc, search_queries, invoked, results>>

----------------------------------------------------------------------------
(* Bounds of the model *)

MaxCpm == 2          \* largest calls_per_minute given to the constructor
MaxCalls == 4        \* admissions in one behaviour of Spec and SpecConc
MaxSessionCalls == 6 \* admissions in one behaviour of SpecSessions
MaxTicks == 3        \* times the clock is advanced between calls

(* Program constants *)

API_CALLS_PER_MINUTE == 5
Window == 120        \* timedelta(minutes=1), in half seconds
Margin == 1          \* the 0.5 added to sleep_time

Threads == {1, 2}
Limiters == {1, 2}
NoLimiter == 0

\* Gaps between calls: half a second, 59 s, 60 s.
Delays == {1, 118, 120}

\* Values handed to RateLimiter.__init__
CpmInputs == (0 - 1) .. MaxCpm

----------------------------------------------------------------------------
(* RateLimiter *)

Max(a, b) == IF a >= b THEN a ELSE b

\* timedelta.seconds: whole seconds of the normalised delta (0 <= seconds < 86400)
Seconds(d) == (d \div 2) % 86400

\* [t for t in self.calls if now - t < timedelta(minutes=1)]
InWindow(log, n) == SelectSeq(log, LAMBDA t : n - t < Window)

\* wait_seconds = 60 - (now - oldest).seconds
WaitSeconds(n, o) == 60 - Seconds(n - o)

\* the target taken one second early
SleepTime_Short(n, o) == (o + Window - 2) - n

\* sleep_time = (oldest + timedelta(seconds=60) - now).total_seconds()
SleepTime(n, o) == (o + Window) - n

\* time.sleep(sleep_time + 0.5), begun at instant c
SleepUntil(c, n, o) == c + SleepTime(n, o) + Margin

\* the difference without the floor at 0
Remaining_NoFloor(cpm, log) == cpm - Len(log)

\* max(0, self.calls_per_minute - len(self.calls))
Remaining(cpm, log) == Max(0, cpm - Len(log))

\* RateLimiter.__init__: no argument is refused
RateLimiter(c) == [calls_per_minute |-> c, calls |-> <<>>]

NoMessage == text = <<>> /\ tag = "none"

\* no FAQ lookup, no cleaning and no request is under way
NoLookup == [fn |-> "none", threshold |-> 0, raised |-> FALSE,
             result |-> [given |-> FALSE, value |-> <<>>]]

NoText == <<0 - 1>>

NoSearch ==
    /\ web_query = <<>>
    /\ max_results = 0
    /\ search_pc = "idle"
    /\ search_queries = <<>>
    /\ invoked = <<>>
    /\ results = <<>>

NoPipeline ==
    /\ user_query = <<>>
    /\ language = "en"
    /\ similarity = <<>>
    /\ faq_similarity = 0
    /\ lookup = NoLookup
    /\ previous = NoLookup
    /\ response = <<>>
    /\ cleaned = NoText
    /\ recleaned = NoText
    /\ messages = <<>>
    /\ query_history = <<>>
    /\ stage = "idle"
    /\ typed = <<>>
    /\ user_input = <<>>
    /\ script = "none"
    /\ trace = <<>>
    /\ banner = <<>>
    /\ outcome = "none"
    /\ chat_manager = "none"
    /\ NoSearch

NoRet == [op |-> "none", value |-> 0]

Running(t) == lim[t] # NoLimiter

InFlight == Cardinality({t \in Threads :
                pc[t] \in {"prune", "store", "check", "oldest", "sleep", "reset",
                           "append"}})

\* now = datetime.now()
WaitIfNeeded_Enter(t, budget) ==
    /\ Running(t)
    /\ pc[t] = "idle"
    /\ Len(admissions) + InFlight < budget
    /\ now' = [now EXCEPT ![t] = clock]
    /\ pc' = [pc EXCEPT ![t] = "prune"]
    /\ UNCHANGED detectVars
    /\ UNCHANGED pipelineVars
    /\ UNCHANGED <<clock, calls_per_minute, calls, lim, seen, filtered, oldest,
                   wake, ret, admissions, ticks>>

\* the list comprehension reads self.calls ...
Prune_Load(t) ==
    /\ pc[t] \in {"prune", "gr_prune"}
    /\ seen' = [seen EXCEPT ![t] = calls[lim[t]]]
    /\ filtered' = [filtered EXCEPT ![t] = InWindow(calls[lim[t]], now[t])]
    /\ pc' = [pc EXCEPT ![t] = IF pc[t] = "prune" THEN "store" ELSE "gr_store"]
    /\ UNCHANGED detectVars
    /\ UNCHANGED pipelineVars
    /\ UNCHANGED <<clock, calls_per_minute, calls, lim, now, oldest, wake, ret,
                   admissions, ticks>>

\* ... and its value is then bound to self.calls
WaitIfNeeded_Store(t) ==
    /\ pc[t] = "store"
    /\ calls' = [calls EXCEPT ![lim[t]] = filtered[t]]
    /\ pc' = [pc EXCEPT ![t] = "check"]
    /\ UNCHANGED detectVars
    /\ UNCHANGED pipelineVars
    /\ UNCHANGED <<clock, calls_per_minute, lim, now, seen, filtered, oldest, wake,
                   ret, admissions, ticks>>

\* if len(self.calls) >= self.calls_per_minute:
WaitIfNeeded_Check(t) ==
    /\ pc[t] = "check"
    /\ pc' = [pc EXCEPT ![t] =
                IF Len(calls[lim[t]]) >= calls_per_minute[lim[t]]
                THEN "oldest" ELSE "append"]
    /\ UNCHANGED detectVars
    /\ UNCHANGED pipelineVars
    /\ UNCHANGED <<clock, calls_per_minute, calls, lim, now, seen, filtered,
                   oldest, wake, ret, admissions, ticks>>

\* oldest = self.calls[0]; wait_seconds; sleep_time; time.sleep(sleep_time + 0.5)
WaitIfNeeded_Oldest(t) ==
    /\ pc[t] = "oldest"
    /\ IF calls[lim[t]] = <<>>
       THEN \* IndexError: list index out of range
            /\ pc' = [pc EXCEPT ![t] = "raised"]
            /\ UNCHANGED <<oldest, wake>>
       ELSE LET o == calls[lim[t]][1] IN
            /\ oldest' = [oldest EXCEPT ![t] = o]
            /\ IF WaitSeconds(now[t], o) > 0
               THEN IF SleepTime(now[t], o) > 0
                    THEN /\ wake' = [wake EXCEPT ![t] = SleepUntil(clock, now[t], o)]
                         /\ pc' = [pc EXCEPT ![t] = "sleep"]
                    ELSE /\ pc' = [pc EXCEPT ![t] = "reset"]
                         /\ UNCHANGED wake
               ELSE /\ pc' = [pc EXCEPT ![t] = "append"]
                    /\ UNCHANGED wake
    /\ UNCHANGED detectVars
    /\ UNCHANGED pipelineVars
    /\ UNCHANGED <<clock, calls_per_minute, calls, lim, now, seen, filtered, ret,
                   admissions, ticks>>

Sleeping == {u \in Threads : pc[u] = "sleep"}

\* time.sleep returns: the earliest sleeper wakes, at its wake-up instant
WaitIfNeeded_Wake(t) ==
    /\ pc[t] = "sleep"
    /\ \A u \in Sleeping : wake[t] <= wake[u]
    /\ clock' = Max(clock, wake[t])
    /\ pc' = [pc EXCEPT ![t] = "reset"]
    /\ UNCHANGED detectVars
    /\ UNCHANGED pipelineVars
    /\ UNCHANGED <<calls_per_minute, calls, lim, now, seen, filtered, oldest, wake,
                   ret, admissions, ticks>>

\* self.calls = []
WaitIfNeeded_Reset(t) ==
    /\ pc[t] = "reset"
    /\ calls' = [calls EXCEPT ![lim[t]] = <<>>]
    /\ pc' = [pc EXCEPT ![t] = "append"]
    /\ UNCHANGED detectVars
    /\ UNCHANGED pipelineVars
    /\ UNCHANGED <<clock, calls_per_minute, lim, now, seen, filtered, oldest, wake,
                   ret, admissions, ticks>>

\* self.calls.append(now), and the method returns
WaitIfNeeded_Append(t) ==
    /\ pc[t] = "append"
    /\ calls' = [calls EXCEPT ![lim[t]] = Append(@, now[t])]
    /\ admissions' = Append(admissions,
                            [limiter |-> lim[t], at |-> clock, stamp |-> now[t]])
    /\ ret' = [ret EXCEPT ![t] = [op |-> "wait_if_needed", value |-> 0]]
    /\ pc' = [pc EXCEPT ![t] = "returned"]
    /\ UNCHANGED detectVars
    /\ UNCHANGED pipelineVars
    /\ UNCHANGED <<clock, calls_per_minute, lim, now, seen, filtered, oldest, wake,
                   ticks>>

\* get_remaining_calls: now = datetime.now()
GetRemainingCalls_Enter(t) ==
    /\ Running(t)
    /\ pc[t] = "idle"
    /\ now' = [now EXCEPT ![t] = clock]
    /\ pc' = [pc EXCEPT ![t] = "gr_prune"]
    /\ UNCHANGED detectVars
    /\ UNCHANGED pipelineVars
    /\ UNCHANGED <<clock, calls_per_minute, calls, lim, seen, filtered, oldest,
                   wake, ret, admissions, ticks>>

\* self.calls = [...]; return max(0, self.calls_per_minute - len(self.calls))
GetRemainingCalls_Return(t) ==
    /\ pc[t] = "gr_store"
    /\ calls' = [calls EXCEPT ![lim[t]] = filtered[t]]
    /\ ret' = [ret EXCEPT ![t] =
                 [op |-> "get_remaining_calls",
                  value |-> Remaining(calls_per_minute[lim[t]], filtered[t])]]
    /\ pc' = [pc EXCEPT ![t] = "returned"]
    /\ UNCHANGED detectVars
    /\ UNCHANGED pipelineVars
    /\ UNCHANGED <<clock, calls_per_minute, lim, now, seen, filtered, oldest, wake,
                   admissions, ticks>>

\* the caller takes the result (or the IndexError) and the frame is gone
Caller_Continue(t) ==
    /\ pc[t] \in {"returned", "raised"}
    /\ pc' = [pc EXCEPT ![t] = "idle"]
    /\ now' = [now EXCEPT ![t] = 0]
    /\ seen' = [seen EXCEPT ![t] = <<>>]
    /\ filtered' = [filtered EXCEPT ![t] = <<>>]
    /\ oldest' = [oldest EXCEPT ![t] = 0]
    /\ wake' = [wake EXCEPT ![t] = 0]
    /\ ret' = [ret EXCEPT ![t] = NoRet]
    /\ UNCHANGED detectVars
    /\ UNCHANGED pipelineVars
    /\ UNCHANGED <<clock, calls_per_minute, calls, lim, admissions, ticks>>

\* time passes between calls; a due wake-up is not skipped
Tick(d) ==
    /\ \A t \in Threads : pc[t] \in {"idle", "sleep"}
    /\ ticks < MaxTicks
    /\ \A t \in Sleeping : clock + d <= wake[t]
    /\ clock' = clock + d
    /\ ticks' = ticks + 1
    /\ UNCHANGED detectVars
    /\ UNCHANGED pipelineVars
    /\ UNCHANGED <<calls_per_minute, calls, lim, pc, now, seen, filtered, oldest,
                   wake, ret, admissions>>

\* SessionStateManager.initialize: a session without "rate_limiter" gets its own
Initialize(t) ==
    /\ lim[t] = NoLimiter
    /\ lim' = [lim EXCEPT ![t] = t]
    /\ calls_per_minute' = [calls_per_minute EXCEPT
                              ![t] = RateLimiter(API_CALLS_PER_MINUTE).calls_per_minute]
    /\ calls' = [calls EXCEPT ![t] = RateLimiter(API_CALLS_PER_MINUTE).calls]
    /\ UNCHANGED detectVars
    /\ UNCHANGED pipelineVars
    /\ UNCHANGED <<clock, pc, now, seen, filtered, oldest, wake, ret, admissions,
                   ticks>>

InitLocals ==
    /\ clock = 0
    /\ pc = [t \in Threads |-> "idle"]
    /\ now = [t \in Threads |-> 0]
    /\ seen = [t \in Threads |-> <<>>]
    /\ filtered = [t \in Threads |-> <<>>]
    /\ oldest = [t \in Threads |-> 0]
    /\ wake = [t \in Threads |-> 0]
    /\ ret = [t \in Threads |-> NoRet]
    /\ admissions = <<>>
    /\ ticks = 0

\* One limiter, built with any argument, used by one caller.
Init ==
    /\ InitLocals
    /\ NoMessage
    /\ NoPipeline
    /\ api_key = "missing"
    /\ \E c \in CpmInputs :
         /\ calls_per_minute = [l \in Limiters |-> RateLimiter(c).calls_per_minute]
         /\ calls = [l \in Limiters |-> RateLimiter(c).calls]
    /\ lim = [t \in Threads |-> IF t = 1 THEN 1 ELSE NoLimiter]

Next ==
    \/ \E t \in Threads : WaitIfNeeded_Enter(t, MaxCalls)
    \/ \E t \in Threads : Prune_Load(t)
    \/ \E t \in Threads : WaitIfNeeded_Store(t)
    \/ \E t \in Threads : WaitIfNeeded_Check(t)
    \/ \E t \in Threads : WaitIfNeeded_Oldest(t)
    \/ \E t \in Threads : WaitIfNeeded_Wake(t)
    \/ \E t \in Threads : WaitIfNeeded_Reset(t)
    \/ \E t \in Threads : WaitIfNeeded_Append(t)
    \/ \E t \in Threads : GetRemainingCalls_Enter(t)
    \/ \E t \in Threads : GetRemainingCalls_Return(t)
    \/ \E t \in Threads : Caller_Continue(t)
    \/ \E d \in Delays : Tick(d)

Spec == Init /\ [][Next]_vars

\* One limiter with a positive limit, used by two threads at once.
InitConc ==
    /\ InitLocals
    /\ NoMessage
    /\ NoPipeline
    /\ api_key = "missing"
    /\ \E c \in 1 .. MaxCpm :
         /\ calls_per_minute = [l \in Limiters |-> RateLimiter(c).calls_per_minute]
         /\ calls = [l \in Limiters |-> RateLimiter(c).calls]
    /\ lim = [t \in Threads |-> 1]

NextConc ==
    \/ \E t \in Threads : WaitIfNeeded_Enter(t, MaxCalls)
    \/ \E t \in Threads : Prune_Load(t)
    \/ \E t \in Threads : WaitIfNeeded_Store(t)
    \/ \E t \in Threads : WaitIfNeeded_Check(t)
    \/ \E t \in Threads : WaitIfNeeded_Oldest(t)
    \/ \E t \in Threads : WaitIfNeeded_Wake(t)
    \/ \E t \in Threads : WaitIfNeeded_Reset(t)
    \/ \E t \in Threads : WaitIfNeeded_Append(t)
    \/ \E t \in Threads : Caller_Continue(t)
    \/ \E d \in Delays : Tick(d)

SpecConc == InitConc /\ [][NextConc]_vars

\* The application: each session's first script run builds the session's limiter.
InitSessions ==
    /\ InitLocals
    /\ NoMessage
    /\ NoPipeline
    /\ api_key = "missing"
    /\ calls_per_minute = [l \in Limiters |-> 0]
    /\ calls = [l \in Limiters |-> <<>>]
    /\ lim = [t \in Threads |-> NoLimiter]

NextSessions ==
    \/ \E t \in Threads : Initialize(t)
    \/ \E t \in Threads : WaitIfNeeded_Enter(t, MaxSessionCalls)
    \/ \E t \in Threads : Prune_Load(t)
    \/ \E t \in Threads : WaitIfNeeded_Store(t)
    \/ \E t \in Threads : WaitIfNeeded_Check(t)
    \/ \E t \in Threads : WaitIfNeeded_Oldest(t)
    \/ \E t \in Threads : WaitIfNeeded_Wake(t)
    \/ \E t \in Threads : WaitIfNeeded_Reset(t)
    \/ \E t \in Threads : WaitIfNeeded_Append(t)
    \/ \E t \in Threads : Caller_Continue(t)
    \/ \E d \in Delays : Tick(d)

SpecSessions == InitSessions /\ [][NextSessions]_vars

----------------------------------------------------------------------------
(* LanguageDetector.  A text is a sequence of code points (ord(c)).         *)

MaxLen == 4          \* length of the texts over Alphabet
MaxWords == 13       \* words of the texts built from Vocabulary
MaxNative == 40      \* native-script characters of the ratio fixtures
MaxLatin == 61       \* other characters of the ratio fixtures

Tags == {"devanagari", "nepglish", "english"}

\* LanguageDetector.DEVANAGARI_RANGES
DEVANAGARI_RANGES == {<<2304, 2431>>, <<7376, 7423>>, <<43232, 43263>>}

\* LanguageDetector.NEPALI_INDICATORS
NEPALI_INDICATORS == {
      \* ma
      <<109, 97>>,
      \* cha
      <<99, 104, 97>>,
      \* chha
      <<99, 104, 104, 97>>,
      \* ho
      <<104, 111>>,
      \* huncha
      <<104, 117, 110, 99, 104, 97>>,
      \* hunchha
      <<104, 117, 110, 99, 104, 104, 97>>,
      \* hunxa
      <<104, 117, 110, 120, 97>>,
      \* hunna
      <<104, 117, 110, 110, 97>>,
      \* ko
      <<107, 111>>,
      \* lai
      <<108, 97, 105>>,
      \* le
      <<108, 101>>,
      \* ra
      <<114, 97>>,
      \* ni
      <<110, 105>>,
      \* ta
      <<116, 97>>,
      \* po
      <<112, 111>>,
      \* timro
      <<116, 105, 109, 114, 111>>,
      \* mero
      <<109, 101, 114, 111>>,
      \* hamro
      <<104, 97, 109, 114, 111>>,
      \* unko
      <<117, 110, 107, 111>>,
      \* usko
      <<117, 115, 107, 111>>,
      \* tapai
      <<116, 97, 112, 97, 105>>,
      \* timi
      <<116, 105, 109, 105>>,
      \* tapain
      <<116, 97, 112, 97, 105, 110>>,
      \* maile
      <<109, 97, 105, 108, 101>>,
      \* taile
      <<116, 97, 105, 108, 101>>,
      \* usle
      <<117, 115, 108, 101>>,
      \* unle
      <<117, 110, 108, 101>>,
      \* kata
      <<107, 97, 116, 97>>,
      \* kaha
      <<107, 97, 104, 97>>,
      \* kina
      <<107, 105, 110, 97>>,
      \* kasari
      <<107, 97, 115, 97, 114, 105>>,
      \* kasko
      <<107, 97, 115, 107, 111>>,
      \* kati
      <<107, 97, 116, 105>>,
      \* kun
      <<107, 117, 110>>,
      \* kasto
      <<107, 97, 115, 116, 111>>,
      \* khoi
      <<107, 104, 111, 105>>,
      \* ke
      <<107, 101>>,
      \* bhayo
      <<98, 104, 97, 121, 111>>,
      \* bhayena
      <<98, 104, 97, 121, 101, 110, 97>>,
      \* gareko
      <<103, 97, 114, 101, 107, 111>>,
      \* garena
      <<103, 97, 114, 101, 110, 97>>,
      \* garne
      <<103, 97, 114, 110, 101>>,
      \* garnu
      <<103, 97, 114, 110, 117>>,
      \* garna
      <<103, 97, 114, 110, 97>>,
      \* gar
      <<103, 97, 114>>,
      \* garchu
      <<103, 97, 114, 99, 104, 117>>,
      \* garchha
      <<103, 97, 114, 99, 104, 104, 97>>,
      \* garxa
      <<103, 97, 114, 120, 97>>,
      \* hune
      <<104, 117, 110, 101>>,
      \* hudaicha
      <<104, 117, 100, 97, 105, 99, 104, 97>>,
      \* hudaina
      <<104, 117, 100, 97, 105, 110, 97>>,
      \* rahecha
      <<114, 97, 104, 101, 99, 104, 97>>,
      \* rahena
      <<114, 97, 104, 101, 110, 97>>,
      \* hunu
      <<104, 117, 110, 117>>,
      \* hunuhuncha
      <<104, 117, 110, 117, 104, 117, 110, 99, 104, 97>>,
      \* ramro
      <<114, 97, 109, 114, 111>>,
      \* naramro
      <<110, 97, 114, 97, 109, 114, 111>>,
      \* thulo
      <<116, 104, 117, 108, 111>>,
      \* sano
      <<115, 97, 110, 111>>,
      \* mitho
      <<109, 105, 116, 104, 111>>,
      \* piro
      <<112, 105, 114, 111>>,
      \* garmi
      <<103, 97, 114, 109, 105>>,
      \* jado
      <<106, 97, 100, 111>>,
      \* pani
      <<112, 97, 110, 105>>,
      \* ani
      <<97, 110, 105>>,
      \* tara
      <<116, 97, 114, 97>>,
      \* kinabhane
      <<107, 105, 110, 97, 98, 104, 97, 110, 101>>,
      \* bhanera
      <<98, 104, 97, 110, 101, 114, 97>>,
      \* bhanne
      <<98, 104, 97, 110, 110, 101>>,
      \* dai
      <<100, 97, 105>>,
      \* didi
      <<100, 105, 100, 105>>,
      \* bhai
      <<98, 104, 97, 105>>,
      \* bahini
      <<98, 97, 104, 105, 110, 105>>,
      \* aama
      <<97, 97, 109, 97>>,
      \* baba
      <<98, 97, 98, 97>>,
      \* sathi
      <<115, 97, 116, 104, 105>>,
      \* pugcha
      <<112, 117, 103, 99, 104, 97>>,
      \* pugdaina
      <<112, 117, 103, 100, 97, 105, 110, 97>>,
      \* sakcha
      <<115, 97, 107, 99, 104, 97>>,
      \* sakdaina
      <<115, 97, 107, 100, 97, 105, 110, 97>>,
      \* parcha
      <<112, 97, 114, 99, 104, 97>>,
      \* pardaina
      <<112, 97, 114, 100, 97, 105, 110, 97>>,
      \* parxa
      <<112, 97, 114, 120, 97>>,
      \* lagcha
      <<108, 97, 103, 99, 104, 97>>,
      \* lagdaina
      <<108, 97, 103, 100, 97, 105, 110, 97>>,
      \* milcha
      <<109, 105, 108, 99, 104, 97>>,
      \* mildaina
      <<109, 105, 108, 100, 97, 105, 110, 97>>,
      \* aja
      <<97, 106, 97>>,
      \* bholi
      <<98, 104, 111, 108, 105>>,
      \* hijo
      <<104, 105, 106, 111>>,
      \* asti
      <<97, 115, 116, 105>>,
      \* paxi
      <<112, 97, 120, 105>>,
      \* agadi
      <<97, 103, 97, 100, 105>>,
      \* pachadi
      <<112, 97, 99, 104, 97, 100, 105>>,
      \* mathi
      <<109, 97, 116, 104, 105>>,
      \* tala
      <<116, 97, 108, 97>>,
      \* bhitra
      <<98, 104, 105, 116, 114, 97>>,
      \* bahira
      <<98, 97, 104, 105, 114, 97>>,
      \* namaste
      <<110, 97, 109, 97, 115, 116, 101>>,
      \* dhanyabad
      <<100, 104, 97, 110, 121, 97, 98, 97, 100>>,
      \* maf
      <<109, 97, 102>>,
      \* kripaya
      <<107, 114, 105, 112, 97, 121, 97>>,
      \* hajur
      <<104, 97, 106, 117, 114>>,
      \* la
      <<108, 97>>,
      \* hoina
      <<104, 111, 105, 110, 97>>
    }

\* str.isspace: the characters str.strip() removes
IsSpace(c) ==
    \/ c \in 9 .. 13 \/ c \in 28 .. 32 \/ c \in {133, 160, 5760}
    \/ c \in 8192 .. 8202 \/ c \in {8232, 8233, 8239, 8287, 12288}

\* \w of the re module, over ASCII and the three Devanagari blocks: letters,
\* digits and "_", not the combining signs and not the punctuation
IsWordChar(c) ==
    \/ c \in 48 .. 57 \/ c \in 65 .. 90 \/ c = 95 \/ c \in 97 .. 122
    \/ c \in 2308 .. 2361 \/ c = 2365 \/ c = 2384 \/ c \in 2392 .. 2401
    \/ c \in 2406 .. 2415 \/ c \in 2417 .. 2431
    \/ c \in 7401 .. 7404 \/ c \in 7406 .. 7411 \/ c \in 7413 .. 7414 \/ c = 7418
    \/ c \in 43250 .. 43255 \/ c = 43259 \/ c \in 43261 .. 43262

\* any(start <= ord(c) <= end for start, end in DEVANAGARI_RANGES)
InDevanagariRanges(c) == \E r \in DEVANAGARI_RANGES : r[1] <= c /\ c <= r[2]

RECURSIVE LStrip(_)
LStrip(s) == IF s # <<>> /\ IsSpace(s[1]) THEN LStrip(Tail(s)) ELSE s

RECURSIVE RStrip(_)
RStrip(s) ==
    IF s # <<>> /\ IsSpace(s[Len(s)]) THEN RStrip(SubSeq(s, 1, Len(s) - 1)) ELSE s

\* text.strip()
Strip(s) == RStrip(LStrip(s))

\* sum(1 for c in text if <c is in a Devanagari range>)
DevanagariChars(s) == Len(SelectSeq(s, InDevanagariRanges))

\* len(text.replace(' ', ''))
TotalChars(s) == Len(SelectSeq(s, LAMBDA c : c # 32))

\* text.lower(), for the cased characters of ASCII
Lower(s) == [i \in 1 .. Len(s) |-> IF s[i] \in 65 .. 90 THEN s[i] + 32 ELSE s[i]]

\* re.findall(r'\b\w+\b', s): the maximal runs of word characters, in order
RECURSIVE FindWordsFrom(_, _)
FindWordsFrom(s, cur) ==
    LET done == IF cur = <<>> THEN <<>> ELSE <<cur>> IN
    IF s = <<>> THEN done
    ELSE IF IsWordChar(s[1]) THEN FindWordsFrom(Tail(s), Append(cur, s[1]))
    ELSE done \o FindWordsFrom(Tail(s), <<>>)

FindWords(s) == FindWordsFrom(s, <<>>)

\* sum(1 for word in words if word in NEPALI_INDICATORS)
NepaliWordCount(words) == Len(SelectSeq(words, LAMBDA w : w \in NEPALI_INDICATORS))

\* the share compared with 40 without the factor 100
PercentageAtLeast40_NoScale(chars, total) == chars >= 40 * total

\* the threshold taken strictly
PercentageAtLeast40_Strict(chars, total) == chars * 100 > 40 * total

\* devanagari_percentage = (chars / total) * 100; devanagari_percentage >= 40.
\* The float product and the integers agree for every text shorter than 10^13.
PercentageAtLeast40(chars, total) == chars * 100 >= 40 * total

\* the lexicon ratio taken strictly
RatioAtLeastQuarter_Strict(count, n) == count * 4 > n

\* nepali_ratio = nepali_word_count / len(words); nepali_ratio >= 0.25
RatioAtLeastQuarter(count, n) == count * 4 >= n

\* the lexicon stage with one hit enough for a text of fewer than 3 tokens
DetectWords_SingleHit(t, chars, total) ==
    LET words == FindWords(Lower(t))
        nepali_word_count == NepaliWordCount(words)
    IN  IF Len(words) >= 3 /\ RatioAtLeastQuarter(nepali_word_count, Len(words))
        THEN "nepglish"
        ELSE IF Len(words) < 3 /\ nepali_word_count >= 1
        THEN "nepglish"
        ELSE IF chars > 0 /\ ~PercentageAtLeast40(chars, total)
                /\ nepali_word_count >= 1
        THEN "nepglish"
        ELSE "english"

\* lines 182-204: the lexicon stage, the mixed-script stage and the default
DetectWords(t, chars, total) ==
    LET words == FindWords(Lower(t))
        nepali_word_count == NepaliWordCount(words)
    IN  IF Len(words) >= 3 /\ RatioAtLeastQuarter(nepali_word_count, Len(words))
        THEN "nepglish"
        ELSE IF Len(words) < 3 /\ nepali_word_count >= 2
        THEN "nepglish"
        ELSE IF chars > 0 /\ ~PercentageAtLeast40(chars, total)
                /\ nepali_word_count >= 1
        THEN "nepglish"
        ELSE "english"

\* lines 175-180: the division, and the script threshold
DetectScript(t, chars, total) ==
    IF total = 0 THEN "ZeroDivisionError"
    ELSE IF PercentageAtLeast40(chars, total) THEN "devanagari"
    ELSE DetectWords(t, chars, total)

\* detect without its two early returns
detect_Unguarded(s) ==
    LET t == Strip(s) IN DetectScript(t, DevanagariChars(t), TotalChars(t))

\* LanguageDetector.detect
detect(s) ==
    LET t == Strip(s) IN
    IF t = <<>> THEN "english"
    ELSE IF TotalChars(t) = 0 THEN "english"
    ELSE DetectScript(t, DevanagariChars(t), TotalChars(t))

(* The texts handed to detect *)

\* space, newline, m, a, M, ?, DEVANAGARI LETTER KA, DEVANAGARI VOWEL SIGN AA
Alphabet == {32, 10, 109, 97, 77, 63, 2325, 2366}

CharTexts == UNION {[1 .. n -> Alphabet] : n \in 0 .. MaxLen}

\* "ma" (in the lexicon) and "is" (not in it)
Vocabulary == {<<109, 97>>, <<105, 115>>}

RECURSIVE Join(_)
Join(ws) == IF Len(ws) = 0 THEN <<>>
            ELSE IF Len(ws) = 1 THEN ws[1]
            ELSE ws[1] \o <<32>> \o Join(Tail(ws))

\* words separated by one space, alone or after the word "KA " in Devanagari
WordTexts ==
    LET plain == {Join(ws) : ws \in UNION {[1 .. n -> Vocabulary] : n \in 1 .. MaxWords}}
    IN  plain \cup {<<2325, 32>> \o w : w \in plain}

Repeat(c, n) == [i \in 1 .. n |-> c]

\* i native-script letters, then nothing or " ma ", then j Latin letters "x"
RatioTexts ==
    {Repeat(2325, i) \o mid \o Repeat(120, j) :
        i \in 0 .. MaxNative, j \in 0 .. MaxLatin,
        mid \in {<<>>, <<32, 109, 97, 32>>}}

Texts == CharTexts \cup WordTexts \cup RatioTexts

InitDetect ==
    /\ InitLocals
    /\ calls_per_minute = [l \in Limiters |-> 0]
    /\ calls = [l \in Limiters |-> <<>>]
    /\ lim = [t \in Threads |-> NoLimiter]
    /\ text \in Texts
    /\ tag = "none"
    /\ NoPipeline
    /\ api_key = "missing"

Detect ==
    /\ tag = "none"
    /\ tag' = detect(text)
    /\ UNCHANGED text
    /\ UNCHANGED limiterVars
    /\ UNCHANGED pipelineVars

NextDetect == Detect

SpecDetect == InitDetect /\ [][NextDetect]_vars

----------------------------------------------------------------------------
(* FAQ lookups: FAQHandler of src/app.py, FAQSearcher of src/faq_search.py *)

(* Similarities and thresholds are counted in hundredths. *)

MaxCorpus == 2           \* entries of the loaded faq_data

FAQ_THRESHOLD == 65      \* config.FAQ_THRESHOLD
SEARCH_THRESHOLD == 70   \* default threshold of FAQSearcher.search
NoMatch == 0             \* best_match = None
IdenticalText == 100     \* cosine of a text with itself

\* Optional[str]
None == [given |-> FALSE, value |-> <<>>]
Some(s) == [given |-> TRUE, value |-> s]

\* the truth value Python gives an Optional[str]
Truthy(o) == o.given /\ o.value # <<>>

HasPrefix(s, p) == Len(s) >= Len(p) /\ SubSeq(s, 1, Len(p)) = p

\* p in s
Contains(s, p) ==
    \E i \in 0 .. Len(s) - Len(p) : SubSeq(s, i + 1, i + Len(p)) = p

\* FAQHandler.FAQ_DATA: per language, the questions in dictionary order, each with
\* its answer
FAQ_DATA ==
    [en |-> <<
      [question |->
        \* What is Kancha AI?
        <<87, 104, 97, 116, 32, 105, 115, 32, 75, 97, 110, 99, 104, 97, 32, 65, 73, 63>>,
       answer |->
        <<75, 97, 110, 99, 104, 97, 32, 65, 73, 32, 105, 115, 32, 97, 32, 109, 117, 108, 116, 105,
        108, 105, 110, 103, 117, 97, 108, 32, 99, 104, 97, 116, 98, 111, 116, 32, 97, 115, 115,
        105, 115, 116, 97, 110, 116, 32, 115, 112, 101, 99, 105, 102, 105, 99, 97, 108, 108,
        121, 32, 100, 101, 115, 105, 103, 110, 101, 100, 32, 102, 111, 114, 32, 78, 101, 112,
        97, 108, 105, 32, 117, 115, 101, 114, 115, 46, 32, 73, 116, 32, 115, 117, 112, 112, 111,
        114, 116, 115, 32, 69, 110, 103, 108, 105, 115, 104, 44, 32, 78, 101, 112, 97, 108, 105,
        32, 40, 68, 101, 118, 97, 110, 97, 103, 97, 114, 105, 41, 44, 32, 97, 110, 100, 32, 78,
        101, 112, 103, 108, 105, 115, 104, 32, 40, 82, 111, 109, 97, 110, 105, 122, 101, 100,
        32, 78, 101, 112, 97, 108, 105, 41, 46>>],
      [question |->
        \* SEE exam information
        <<83, 69, 69, 32, 101, 120, 97, 109, 32, 105, 110, 102, 111, 114, 109, 97, 116, 105, 111,
        110>>,
       answer |->
        <<83, 69, 69, 32, 40, 83, 101, 99, 111, 110, 100, 97, 114, 121, 32, 69, 100, 117, 99, 97,
        116, 105, 111, 110, 32, 69, 120, 97, 109, 105, 110, 97, 116, 105, 111, 110, 41, 32, 105,
        115, 32, 116, 104, 101, 32, 110, 97, 116, 105, 111, 110, 97, 108, 32, 108, 101, 118,
        101, 108, 32, 101, 120, 97, 109, 32, 105, 110, 32, 78, 101, 112, 97, 108, 32, 102, 111,
        114, 32, 71, 114, 97, 100, 101, 32, 49, 48, 32, 115, 116, 117, 100, 101, 110, 116, 115,
        46, 32, 73, 116, 39, 115, 32, 99, 111, 110, 100, 117, 99, 116, 101, 100, 32, 98, 121,
        32, 78, 97, 116, 105, 111, 110, 97, 108, 32, 69, 120, 97, 109, 105, 110, 97, 116, 105,
        111, 110, 32, 66, 111, 97, 114, 100, 32, 40, 78, 69, 66, 41, 46>>],
      [question |->
        \* Dashain festival
        <<68, 97, 115, 104, 97, 105, 110, 32, 102, 101, 115, 116, 105, 118, 97, 108>>,
       answer |->
        <<68, 97, 115, 104, 97, 105, 110, 32, 105, 115, 32, 116, 104, 101, 32, 98, 105, 103, 103,
        101, 115, 116, 32, 102, 101, 115, 116, 105, 118, 97, 108, 32, 105, 110, 32, 78, 101,
        112, 97, 108, 44, 32, 99, 101, 108, 101, 98, 114, 97, 116, 101, 100, 32, 102, 111, 114,
        32, 49, 53, 32, 100, 97, 121, 115, 32, 105, 110, 32, 83, 101, 112, 116, 101, 109, 98,
        101, 114, 47, 79, 99, 116, 111, 98, 101, 114, 46, 32, 73, 116, 32, 115, 121, 109, 98,
        111, 108, 105, 122, 101, 115, 32, 116, 104, 101, 32, 118, 105, 99, 116, 111, 114, 121,
        32, 111, 102, 32, 103, 111, 111, 100, 32, 111, 118, 101, 114, 32, 101, 118, 105, 108, 46>>],
      [question |->
        \* IOE entrance guide
        <<73, 79, 69, 32, 101, 110, 116, 114, 97, 110, 99, 101, 32, 103, 117, 105, 100, 101>>,
       answer |->
        <<73, 79, 69, 32, 101, 110, 116, 114, 97, 110, 99, 101, 32, 101, 120, 97, 109, 32, 105,
        115, 32, 102, 111, 114, 32, 97, 100, 109, 105, 115, 115, 105, 111, 110, 32, 116, 111,
        32, 101, 110, 103, 105, 110, 101, 101, 114, 105, 110, 103, 32, 99, 111, 108, 108, 101,
        103, 101, 115, 32, 105, 110, 32, 78, 101, 112, 97, 108, 46, 32, 80, 114, 101, 112, 97,
        114, 97, 116, 105, 111, 110, 32, 114, 101, 113, 117, 105, 114, 101, 115, 32, 115, 116,
        114, 111, 110, 103, 32, 98, 97, 115, 105, 99, 115, 32, 105, 110, 32, 80, 104, 121, 115,
        105, 99, 115, 44, 32, 67, 104, 101, 109, 105, 115, 116, 114, 121, 44, 32, 97, 110, 100,
        32, 77, 97, 116, 104, 101, 109, 97, 116, 105, 99, 115, 46>>],
      [question |->
        \* Study tips
        <<83, 116, 117, 100, 121, 32, 116, 105, 112, 115>>,
       answer |->
        <<69, 102, 102, 101, 99, 116, 105, 118, 101, 32, 115, 116, 117, 100, 121, 32, 116, 105,
        112, 115, 58, 32, 49, 41, 32, 67, 114, 101, 97, 116, 101, 32, 97, 32, 115, 99, 104, 101,
        100, 117, 108, 101, 32, 50, 41, 32, 84, 97, 107, 101, 32, 114, 101, 103, 117, 108, 97,
        114, 32, 98, 114, 101, 97, 107, 115, 32, 51, 41, 32, 80, 114, 97, 99, 116, 105, 99, 101,
        32, 112, 114, 111, 98, 108, 101, 109, 115, 32, 52, 41, 32, 82, 101, 118, 105, 101, 119,
        32, 114, 101, 103, 117, 108, 97, 114, 108, 121, 32, 53, 41, 32, 71, 101, 116, 32, 101,
        110, 111, 117, 103, 104, 32, 115, 108, 101, 101, 112, 46>>],
      [question |->
        \* Career guidance
        <<67, 97, 114, 101, 101, 114, 32, 103, 117, 105, 100, 97, 110, 99, 101>>,
       answer |->
        <<70, 111, 114, 32, 99, 97, 114, 101, 101, 114, 32, 103, 117, 105, 100, 97, 110, 99, 101,
        58, 32, 49, 41, 32, 65, 115, 115, 101, 115, 115, 32, 121, 111, 117, 114, 32, 105, 110,
        116, 101, 114, 101, 115, 116, 115, 32, 50, 41, 32, 82, 101, 115, 101, 97, 114, 99, 104,
        32, 111, 112, 116, 105, 111, 110, 115, 32, 51, 41, 32, 84, 97, 108, 107, 32, 116, 111,
        32, 112, 114, 111, 102, 101, 115, 115, 105, 111, 110, 97, 108, 115, 32, 52, 41, 32, 67,
        111, 110, 115, 105, 100, 101, 114, 32, 106, 111, 98, 32, 109, 97, 114, 107, 101, 116,
        32, 53, 41, 32, 80, 108, 97, 110, 32, 121, 111, 117, 114, 32, 101, 100, 117, 99, 97,
        116, 105, 111, 110, 46>>]
     >>,
     np |-> <<
      [question |->
        \* Kancha AI ????? ?? ???
        <<75, 97, 110, 99, 104, 97, 32, 65, 73, 32, 2349, 2344, 2375, 2325, 2379, 32, 2325, 2375,
        32, 2361, 2379, 63>>,
       answer |->
        <<75, 97, 110, 99, 104, 97, 32, 65, 73, 32, 2349, 2344, 2375, 2325, 2379, 32, 2344, 2375,
        2346, 2366, 2354, 2368, 32, 2346, 2381, 2352, 2351, 2379, 2327, 2325, 2352, 2381, 2340,
        2366, 2361, 2352, 2370, 2325, 2379, 32, 2354, 2366, 2327, 2367, 32, 2357, 2367, 2358,
        2375, 2359, 32, 2352, 2370, 2346, 2350, 2366, 32, 2340, 2351, 2366, 2352, 32, 2327,
        2352, 2367, 2319, 2325, 2379, 32, 2348, 2361, 2369, 2349, 2366, 2359, 2367, 2325, 32,
        2330, 2381, 2351, 2366, 2335, 2348, 2335, 32, 2360, 2361, 2366, 2351, 2325, 32, 2361,
        2379, 2404, 32, 2351, 2360, 2354, 2375, 32, 2309, 2329, 2381, 2327, 2381, 2352, 2375,
        2332, 2368, 44, 32, 2344, 2375, 2346, 2366, 2354, 2368, 32, 40, 2342, 2375, 2357, 2344,
        2366, 2327, 2352, 2368, 41, 44, 32, 2352, 32, 2344, 2375, 2346, 2381, 2327, 2354, 2367,
        2360, 32, 40, 2352, 2379, 2350, 2344, 2366, 2311, 2332, 2381, 2337, 32, 2344, 2375,
        2346, 2366, 2354, 2368, 41, 32, 2360, 2350, 2352, 2381, 2341, 2344, 32, 2327, 2352,
        2381, 2342, 2331, 2404>>],
      [question |->
        \* SEE ???????
        <<83, 69, 69, 32, 2346, 2352, 2368, 2325, 2381, 2359, 2366>>,
       answer |->
        <<83, 69, 69, 32, 40, 2350, 2366, 2343, 2381, 2351, 2350, 2367, 2325, 32, 2358, 2367,
        2325, 2381, 2359, 2366, 32, 2346, 2352, 2368, 2325, 2381, 2359, 2366, 41, 32, 2344,
        2375, 2346, 2366, 2354, 2350, 2366, 32, 2325, 2325, 2381, 2359, 2366, 32, 2407, 2406,
        32, 2325, 2366, 32, 2357, 2367, 2342, 2381, 2351, 2366, 2352, 2381, 2341, 2368, 2361,
        2352, 2370, 2325, 2379, 32, 2354, 2366, 2327, 2367, 32, 2352, 2366, 2359, 2381, 2335,
        2381, 2352, 2367, 2351, 32, 2360, 2381, 2340, 2352, 2325, 2379, 32, 2346, 2352, 2368,
        2325, 2381, 2359, 2366, 32, 2361, 2379, 2404, 32, 2351, 2379, 32, 2352, 2366, 2359,
        2381, 2335, 2381, 2352, 2367, 2351, 32, 2346, 2352, 2368, 2325, 2381, 2359, 2366, 32,
        2348, 2379, 2352, 2381, 2337, 32, 40, 78, 69, 66, 41, 32, 2342, 2381, 2357, 2366, 2352,
        2366, 32, 2310, 2351, 2379, 2332, 2344, 2366, 32, 2327, 2352, 2367, 2344, 2381, 2331,
        2404>>],
      [question |->
        \* ???? ????
        <<2342, 2358, 2376, 2306, 32, 2346, 2352, 2381, 2357>>,
       answer |->
        <<2342, 2358, 2376, 2306, 32, 2344, 2375, 2346, 2366, 2354, 2325, 2379, 32, 2360, 2348,
        2376, 2349, 2344, 2381, 2342, 2366, 32, 2336, 2370, 2354, 2379, 32, 2346, 2352, 2381,
        2357, 32, 2361, 2379, 44, 32, 2360, 2375, 2346, 2381, 2335, 2375, 2350, 2381, 2348,
        2352, 47, 2309, 2325, 2381, 2335, 2379, 2348, 2352, 2350, 2366, 32, 2407, 2411, 32,
        2342, 2367, 2344, 2360, 2350, 2381, 2350, 32, 2350, 2344, 2366, 2311, 2344, 2381, 2331,
        2404, 32, 2351, 2360, 2354, 2375, 32, 2360, 2340, 2381, 2325, 2379, 32, 2350, 2366,
        2341, 2367, 32, 2309, 2360, 2340, 2381, 2325, 2379, 32, 2357, 2367, 2332, 2351, 2354,
        2366, 2312, 32, 2346, 2381, 2352, 2340, 2367, 2344, 2367, 2343, 2367, 2340, 2381, 2357,
        32, 2327, 2352, 2381, 2342, 2331, 2404>>]
     >>]

\* the loop of FAQHandler.get_answer: the answer of the first question that is
\* the query, contains the query, or is contained in it
RECURSIVE FirstMatch(_, _)
FirstMatch(entries, query_lower) ==
    IF entries = <<>> THEN None
    ELSE LET question_lower == Lower(entries[1].question) IN
         IF \/ query_lower = question_lower
            \/ Contains(question_lower, query_lower)
            \/ Contains(query_lower, question_lower)
         THEN Some(entries[1].answer)
         ELSE FirstMatch(Tail(entries), query_lower)

\* FAQHandler.get_answer(query, language, threshold)
FAQHandler_get_answer(query, lang, threshold) ==
    LET used == IF lang \in DOMAIN FAQ_DATA THEN lang ELSE "en"
    IN  FirstMatch(FAQ_DATA[used], Strip(Lower(query)))

\* the for loop of FAQSearcher.search over the similarities, from best_score = 0
\* and best_match = None
RECURSIVE BestFrom(_, _, _)
BestFrom(sims, i, best) ==
    IF i > Len(sims) THEN best
    ELSE BestFrom(sims, i + 1,
                  IF sims[i] > best.score
                  THEN [score |-> sims[i], match |-> i]
                  ELSE best)

\* the comparison turned round
Found_Reversed(best_score, threshold) == best_score =< threshold

\* if best_score >= threshold
Found(best_score, threshold) == best_score >= threshold

\* FAQSearcher.search(user_query, threshold), the query given by its similarities
FAQSearcher_search(sims, threshold) ==
    LET best == BestFrom(sims, 1, [score |-> 0, match |-> NoMatch]) IN
    IF sims = <<>>
    THEN [raised |-> FALSE, found |-> FALSE, match |-> NoMatch, score |-> 0]
    ELSE IF Found(best.score, threshold)
    THEN \* best_match['answers'] with best_match = None is a TypeError
         [raised |-> best.match = NoMatch, found |-> best.match # NoMatch,
          match |-> best.match, score |-> best.score]
    ELSE [raised |-> FALSE, found |-> FALSE, match |-> best.match,
          score |-> best.score]

\* the languages each entry of FAQ_DATABASE has an answer in
AnswerLanguages == {"en", "ne", "np"}

\* answers.get(language, answers.get('en', 'No answer available'))
AnswerLanguage(lang) == IF lang \in AnswerLanguages THEN lang ELSE "en"

\* FAQSearcher.get_answer(user_query, language, threshold): the answer of the
\* matched entry in the language, followed by the debug line, or None
FAQSearcher_get_answer(sims, lang, threshold) ==
    LET result == FAQSearcher_search(sims, threshold) IN
    IF result.raised THEN [raised |-> TRUE, answer |-> None]
    ELSE IF result.found
    THEN [raised |-> FALSE,
          answer |-> Some(<<result.match, AnswerLanguage(lang), result.score>>)]
    ELSE [raised |-> FALSE, answer |-> None]

(* The lookups made *)

Similarities == {0 - 10, 0, 64, 65, 70}
Thresholds == {0, FAQ_THRESHOLD, SEARCH_THRESHOLD}
Languages == {"en", "np", "ne"}

\* "What is Kancha AI?", "is", "Dashain festival 2024", "hello", two spaces,
\* and the third question of FAQ_DATA['np']
Queries == {
    <<87, 104, 97, 116, 32, 105, 115, 32, 75, 97, 110, 99, 104, 97, 32, 65, 73, 63>>,
    <<105, 115>>,
    <<68, 97, 115, 104, 97, 105, 110, 32, 102, 101, 115, 116, 105, 118, 97, 108, 32,
      50, 48, 50, 52>>,
    <<104, 101, 108, 108, 111>>,
    <<32, 32>>,
    <<2342, 2358, 2376, 2306, 32, 2346, 2352, 2381, 2357>> }

\* the query is, letter for letter, a question of the handler's corpus
Verbatim(query, lang) ==
    LET used == IF lang \in DOMAIN FAQ_DATA THEN lang ELSE "en"
    IN  \E i \in DOMAIN FAQ_DATA[used] : FAQ_DATA[used][i].question = query

\* A query, the language asked for, and what the embedding function makes of
\* the query: its cosine with each entry of faq_data and its best cosine with
\* the questions of FAQ_DATA.  The embedding function is deterministic, so a
\* query that is a question has cosine 1 with it.
InitFaq ==
    /\ InitLocals
    /\ calls_per_minute = [l \in Limiters |-> 0]
    /\ calls = [l \in Limiters |-> <<>>]
    /\ lim = [t \in Threads |-> NoLimiter]
    /\ NoMessage
    /\ user_query \in Queries
    /\ language \in Languages
    /\ similarity \in UNION {[1 .. n -> Similarities] : n \in 0 .. MaxCorpus}
    /\ faq_similarity \in IF Verbatim(user_query, language)
                          THEN {IdenticalText} ELSE Similarities
    /\ lookup = NoLookup
    /\ previous = NoLookup
    /\ response = <<>>
    /\ cleaned = NoText
    /\ recleaned = NoText
    /\ messages = <<>>
    /\ query_history = <<>>
    /\ stage = "idle"
    /\ typed = <<>>
    /\ user_input = <<>>
    /\ script = "none"
    /\ trace = <<>>
    /\ banner = <<>>
    /\ outcome = "none"
    /\ chat_manager = "none"
    /\ NoSearch
    /\ api_key = "missing"

\* FAQSearcher.search(user_query, th)
Search(th) ==
    /\ previous = NoLookup
    /\ LET r == FAQSearcher_search(similarity, th) IN
       lookup' = [fn |-> "search", threshold |-> th, raised |-> r.raised,
                  result |-> r]
    /\ previous' = lookup
    /\ UNCHANGED <<user_query, language, similarity, faq_similarity>>
    /\ UNCHANGED <<limiterVars, detectVars, cleanVars, routerVars, searchVars>>

\* FAQSearcher.get_answer(user_query, language, th)
SearcherGetAnswer(th) ==
    /\ previous = NoLookup
    /\ LET r == FAQSearcher_get_answer(similarity, language, th) IN
       lookup' = [fn |-> "searcher", threshold |-> th, raised |-> r.raised,
                  result |-> r.answer]
    /\ previous' = lookup
    /\ UNCHANGED <<user_query, language, similarity, faq_similarity>>
    /\ UNCHANGED <<limiterVars, detectVars, cleanVars, routerVars, searchVars>>

\* FAQHandler.get_answer(user_query, language, th)
HandlerGetAnswer(th) ==
    /\ previous = NoLookup
    /\ lookup' = [fn |-> "handler", threshold |-> th, raised |-> FALSE,
                  result |-> FAQHandler_get_answer(user_query, language, th)]
    /\ previous' = lookup
    /\ UNCHANGED <<user_query, language, similarity, faq_similarity>>
    /\ UNCHANGED <<limiterVars, detectVars, cleanVars, routerVars, searchVars>>

NextFaq ==
    \/ \E th \in Thresholds : Search(th)
    \/ \E th \in Thresholds : SearcherGetAnswer(th)
    \/ \E th \in Thresholds : HandlerGetAnswer(th)

SpecFaq == InitFaq /\ [][NextFaq]_vars

----------------------------------------------------------------------------
(* ResponseProcessor.clean *)

MaxPieces == 3           \* pieces a response is put together from

FAQ_MATCH_MARKER == <<91, 70, 65, 81, 32, 77, 97, 116, 99, 104, 58>>
SIMILARITY_MARKER == <<91, 83, 105, 109, 105, 108, 97, 114, 105, 116, 121, 58>>
MATCH_MARKER == <<91, 77, 97, 116, 99, 104>>
HTTP == <<104, 116, 116, 112, 58, 47, 47>>
HTTPS == <<104, 116, 116, 112, 115, 58, 47, 47>>
WWW == <<119, 119, 119, 46>>
YOUTUBE_WATCH ==
    <<121, 111, 117, 116, 117, 98, 101, 46, 99, 111, 109, 47, 119, 97, 116, 99, 104, 63, 118, 61>>
YOUTU_BE == <<121, 111, 117, 116, 117, 46, 98, 101, 47>>

\* the replacement texts of suspicious_patterns
YOUTUBE_REPLACEMENT ==
    <<128269, 32, 89, 111, 117, 84, 117, 98, 101, 32, 109, 97, 32, 115, 101, 97, 114, 99, 104, 32,
    103, 97, 114, 97, 58, 32>>
YOUTU_BE_REPLACEMENT ==
    <<128269, 32, 89, 111, 117, 84, 117, 98, 101, 32, 118, 105, 100, 101, 111, 32, 115, 101, 97,
    114, 99, 104, 32, 103, 97, 114, 97, 58, 32>>
LINK_REPLACEMENT ==
    <<128279, 32, 91, 76, 105, 110, 107, 32, 114, 101, 109, 111, 118, 101, 100, 32, 45, 32, 83,
    101, 97, 114, 99, 104, 32, 105, 110, 115, 116, 101, 97, 100, 93>>

Drop(s, n) == SubSeq(s, n + 1, Len(s))

\* .*?\] from position i: the first "]" reached without crossing a newline,
\* or 0
RECURSIVE ClosingBracket(_, _)
ClosingBracket(s, i) ==
    IF i > Len(s) THEN 0
    ELSE IF s[i] = 93 THEN i
    ELSE IF s[i] = 10 THEN 0
    ELSE ClosingBracket(s, i + 1)

\* re.sub(marker + r'.*?\]', '', s)
RECURSIVE RemoveMarker(_, _)
RemoveMarker(s, marker) ==
    IF s = <<>> THEN <<>>
    ELSE LET close == IF HasPrefix(s, marker)
                      THEN ClosingBracket(s, Len(marker) + 1) ELSE 0
         IN  IF close > 0
             THEN RemoveMarker(Drop(s, close), marker)
             ELSE <<s[1]>> \o RemoveMarker(Tail(s), marker)

\* [^\s]+ and [\w-]+ at the start of s: the length of the longest run
RECURSIVE NonSpaceRun(_)
NonSpaceRun(s) ==
    IF s = <<>> \/ IsSpace(s[1]) THEN 0 ELSE 1 + NonSpaceRun(Tail(s))

RECURSIVE WordDashRun(_)
WordDashRun(s) ==
    IF s = <<>> \/ ~(IsWordChar(s[1]) \/ s[1] = 45) THEN 0
    ELSE 1 + WordDashRun(Tail(s))

\* https?:// at the start of s: its length, or 0
SchemeLength(s) ==
    IF HasPrefix(s, HTTPS) THEN Len(HTTPS)
    ELSE IF HasPrefix(s, HTTP) THEN Len(HTTP)
    ELSE 0

\* the literal, then a run of at least one character: the length of both, or 0
LiteralAndRun(s, literal) ==
    IF HasPrefix(s, literal) /\ WordDashRun(Drop(s, Len(literal))) > 0
    THEN Len(literal) + WordDashRun(Drop(s, Len(literal)))
    ELSE 0

\* the length of the match of a pattern of suspicious_patterns at the start of
\* s, or 0
MatchLength(pattern, s) ==
    LET scheme == SchemeLength(s)
        rest == Drop(s, scheme)
        tail == IF pattern = "youtube"
                THEN IF HasPrefix(rest, WWW)
                     THEN IF LiteralAndRun(Drop(rest, Len(WWW)), YOUTUBE_WATCH) > 0
                          THEN Len(WWW)
                               + LiteralAndRun(Drop(rest, Len(WWW)), YOUTUBE_WATCH)
                          ELSE 0
                     ELSE LiteralAndRun(rest, YOUTUBE_WATCH)
                ELSE IF pattern = "youtu.be"
                THEN LiteralAndRun(rest, YOUTU_BE)
                ELSE NonSpaceRun(rest)
    IN  IF scheme > 0 /\ tail > 0 THEN scheme + tail ELSE 0

Replacement(pattern) ==
    IF pattern = "youtube" THEN YOUTUBE_REPLACEMENT
    ELSE IF pattern = "youtu.be" THEN YOUTU_BE_REPLACEMENT
    ELSE LINK_REPLACEMENT

\* re.sub(pattern, replacement, s)
RECURSIVE Substitute(_, _)
Substitute(pattern, s) ==
    IF s = <<>> THEN <<>>
    ELSE LET n == MatchLength(pattern, s) IN
         IF n > 0
         THEN Replacement(pattern) \o Substitute(pattern, Drop(s, n))
         ELSE <<s[1]>> \o Substitute(pattern, Tail(s))

RECURSIVE NewlineRun(_)
NewlineRun(s) == IF s = <<>> \/ s[1] # 10 THEN 0 ELSE 1 + NewlineRun(Tail(s))

\* re.sub(r'\n{3,}', '\n\n', s)
RECURSIVE CollapseNewlines(_)
CollapseNewlines(s) ==
    IF s = <<>> THEN <<>>
    ELSE LET n == NewlineRun(s) IN
         IF n >= 3
         THEN <<10, 10>> \o CollapseNewlines(Drop(s, n))
         ELSE <<s[1]>> \o CollapseNewlines(Tail(s))

\* ResponseProcessor.clean
clean(r) ==
    LET unmarked == RemoveMarker(RemoveMarker(RemoveMarker(r, FAQ_MATCH_MARKER),
                                              SIMILARITY_MARKER),
                                 MATCH_MARKER)
        unlinked == Substitute("any",
                        Substitute("youtu.be", Substitute("youtube", unmarked)))
    IN  Strip(CollapseNewlines(unlinked))

(* The responses handed to clean *)

\* "[Ma", "[Match x]", "tch y]", "[Match ", "[FAQ Ma", "[FAQ Match: 90%]",
\* "[Similarity: 0.9]", "http://a.b", "HTTP://a.b", "https://youtu.be/a-1",
\* "https://www.youtube.com/watch?v=a_1", "ok", " ", and two newlines
Pieces == {
    <<91, 77, 97>>,
    <<91, 77, 97, 116, 99, 104, 32, 120, 93>>,
    <<116, 99, 104, 32, 121, 93>>,
    <<91, 77, 97, 116, 99, 104, 32>>,
    <<91, 70, 65, 81, 32, 77, 97>>,
    <<91, 70, 65, 81, 32, 77, 97, 116, 99, 104, 58, 32, 57, 48, 37, 93>>,
    <<91, 83, 105, 109, 105, 108, 97, 114, 105, 116, 121, 58, 32, 48, 46, 57, 93>>,
    <<104, 116, 116, 112, 58, 47, 47, 97, 46, 98>>,
    <<72, 84, 84, 80, 58, 47, 47, 97, 46, 98>>,
    <<104, 116, 116, 112, 115, 58, 47, 47, 121, 111, 117, 116, 117, 46, 98, 101, 47, 97, 45, 49>>,
    <<104, 116, 116, 112, 115, 58, 47, 47, 119, 119, 119, 46, 121, 111, 117, 116, 117, 98, 101,
      46, 99, 111, 109, 47, 119, 97, 116, 99, 104, 63, 118, 61, 97, 95, 49>>,
    <<111, 107>>,
    <<32>>,
    <<10, 10>> }

RECURSIVE Concat(_)
Concat(ps) == IF ps = <<>> THEN <<>> ELSE ps[1] \o Concat(Tail(ps))

Responses == {Concat(ps) : ps \in UNION {[1 .. n -> Pieces] : n \in 0 .. MaxPieces}}

InitClean ==
    /\ InitLocals
    /\ calls_per_minute = [l \in Limiters |-> 0]
    /\ calls = [l \in Limiters |-> <<>>]
    /\ lim = [t \in Threads |-> NoLimiter]
    /\ NoMessage
    /\ user_query = <<>>
    /\ language = "en"
    /\ similarity = <<>>
    /\ faq_similarity = 0
    /\ lookup = NoLookup
    /\ previous = NoLookup
    /\ response \in Responses
    /\ cleaned = NoText
    /\ recleaned = NoText
    /\ messages = <<>>
    /\ query_history = <<>>
    /\ stage = "idle"
    /\ typed = <<>>
    /\ user_input = <<>>
    /\ script = "none"
    /\ trace = <<>>
    /\ banner = <<>>
    /\ outcome = "none"
    /\ chat_manager = "none"
    /\ NoSearch
    /\ api_key = "missing"

\* ResponseProcessor.clean(response)
Clean ==
    /\ cleaned = NoText
    /\ cleaned' = clean(response)
    /\ UNCHANGED <<response, recleaned>>
    /\ UNCHANGED <<limiterVars, detectVars, faqVars, routerVars, searchVars>>

\* ResponseProcessor.clean, called with what it returned
CleanAgain ==
    /\ cleaned # NoText
    /\ recleaned = NoText
    /\ recleaned' = clean(cleaned)
    /\ UNCHANGED <<response, cleaned>>
    /\ UNCHANGED <<limiterVars, detectVars, faqVars, routerVars, searchVars>>

NextClean ==
    \/ Clean
    \/ CleanAgain

SpecClean == InitClean /\ [][NextClean]_vars

----------------------------------------------------------------------------
(* process_user_message *)

MaxMessages == 2         \* messages the chat may hold when a request begins, plus 2
MaxRequests == 6         \* calls of wait_if_needed in one behaviour

MIN_QUERY_LENGTH == 2
MAX_MESSAGE_LENGTH == 2000
MAX_HISTORY == 5
ERROR_LIMIT == 100       \* characters of str(e) kept, in send_message and format_error

\* the messages of MessageValidator.validate
VALIDATION_ERRORS ==
    [empty |->
        <<77, 101, 115, 115, 97, 103, 101, 32, 99, 97, 110, 110, 111, 116, 32, 98, 101, 32, 101,
        109, 112, 116, 121>>,
     short |->
        <<77, 101, 115, 115, 97, 103, 101, 32, 116, 111, 111, 32, 115, 104, 111, 114, 116, 32, 40,
        109, 105, 110, 32, 50, 32, 99, 104, 97, 114, 115, 41>>,
     long |->
        <<77, 101, 115, 115, 97, 103, 101, 32, 116, 111, 111, 32, 108, 111, 110, 103, 32, 40, 109,
        97, 120, 32, 50, 48, 48, 48, 32, 99, 104, 97, 114, 115, 41>>]

\* the mark st.error puts before error_msg
ERROR_MARK == <<10060, 32>>

\* '/summarize', '/summary', and the instruction put in place of the command
COMMANDS ==
    [summarize |->
        <<47, 115, 117, 109, 109, 97, 114, 105, 122, 101>>,
     summary |->
        <<47, 115, 117, 109, 109, 97, 114, 121>>,
     instruction |->
        <<80, 108, 101, 97, 115, 101, 32, 115, 117, 109, 109, 97, 114, 105, 122, 101, 32, 116,
        104, 105, 115, 32, 116, 101, 120, 116, 32, 105, 110, 32, 116, 104, 101, 32, 115, 97,
        109, 101, 32, 108, 97, 110, 103, 117, 97, 103, 101, 47, 115, 99, 114, 105, 112, 116, 58,
        32>>]

\* the headings of an FAQ answer
QUICK_ANSWER ==
    [devanagari |->
        <<42, 42, 128204, 32, 2340, 2340, 2381, 2325, 2366, 2354, 32, 2313, 2340, 2381, 2340,
        2352, 58, 42, 42, 10, 10>>,
     other |->
        <<42, 42, 128204, 32, 81, 117, 105, 99, 107, 32, 65, 110, 115, 119, 101, 114, 58, 42, 42,
        10, 10>>]

\* instructions of send_message, and the line that introduces the message
INSTRUCTIONS ==
    [devanagari |->
        <<91, 85, 83, 69, 82, 32, 73, 83, 32, 87, 82, 73, 84, 73, 78, 71, 32, 73, 78, 32, 68, 69,
        86, 65, 78, 65, 71, 65, 82, 73, 32, 83, 67, 82, 73, 80, 84, 32, 45, 32, 89, 79, 85, 32,
        77, 85, 83, 84, 32, 82, 69, 83, 80, 79, 78, 68, 32, 49, 48, 48, 37, 32, 73, 78, 32, 68,
        69, 86, 65, 78, 65, 71, 65, 82, 73, 93>>,
     nepglish |->
        <<91, 85, 83, 69, 82, 32, 73, 83, 32, 87, 82, 73, 84, 73, 78, 71, 32, 73, 78, 32, 82, 79,
        77, 65, 78, 73, 90, 69, 68, 32, 78, 69, 80, 65, 76, 73, 32, 40, 78, 69, 80, 71, 76, 73,
        83, 72, 41, 32, 45, 32, 89, 79, 85, 32, 77, 85, 83, 84, 32, 82, 69, 83, 80, 79, 78, 68,
        32, 73, 78, 32, 78, 69, 80, 71, 76, 73, 83, 72, 93>>,
     english |->
        <<91, 85, 83, 69, 82, 32, 73, 83, 32, 87, 82, 73, 84, 73, 78, 71, 32, 73, 78, 32, 69, 78,
        71, 76, 73, 83, 72, 32, 45, 32, 89, 79, 85, 32, 77, 85, 83, 84, 32, 82, 69, 83, 80, 79,
        78, 68, 32, 73, 78, 32, 69, 78, 71, 76, 73, 83, 72, 93>>]

USER_LINE == <<10, 10, 85, 115, 101, 114, 58, 32>>

FAILED_PREFIX ==
    <<70, 97, 105, 108, 101, 100, 32, 116, 111, 32, 103, 101, 116, 32, 65, 73, 32, 114, 101,
        115, 112, 111, 110, 115, 101, 58, 32>>

\* 'quota', '429', 'timeout'
MARKERS == [quota |-> <<113, 117, 111, 116, 97>>, code |-> <<52, 50, 57>>,
            timeout |-> <<116, 105, 109, 101, 111, 117, 116>>]

\* error_messages['rate_limit']
RATE_LIMIT_MESSAGES ==
    [devanagari |->
        <<42, 42, 9888, 65039, 32, 82, 101, 113, 117, 101, 115, 116, 32, 76, 105, 109, 105, 116,
        32, 2346, 2369, 2327, 2381, 2351, 2379, 42, 42, 10, 10, 2325, 2371, 2346, 2351, 2366,
        32, 2407, 45, 2408, 32, 2350, 2367, 2344, 2375, 2335, 32, 2346, 2352, 2381, 2326, 2344,
        2369, 2361, 2379, 2360, 2381, 2404, 32, 70, 114, 101, 101, 32, 116, 105, 101, 114, 32,
        2350, 2366, 32, 108, 105, 109, 105, 116, 101, 100, 32, 114, 101, 113, 117, 101, 115,
        116, 115, 32, 2331, 2344, 2381, 2404, 10, 10, 42, 42, 2360, 2369, 2333, 2366, 2357, 58,
        42, 42, 10, 8226, 32, 2331, 2379, 2335, 2379, 32, 2346, 2381, 2352, 2358, 2381, 2344,
        32, 2360, 2379, 2343, 2381, 2344, 2369, 2361, 2379, 2360, 2381, 10, 8226, 32, 2325,
        2375, 2361, 2368, 32, 2350, 2367, 2344, 2375, 2335, 32, 2346, 2331, 2367, 32, 2346,
        2369, 2344, 2307, 32, 2346, 2381, 2352, 2351, 2366, 2360, 32, 2327, 2352, 2381, 2344,
        2369, 2361, 2379, 2360, 2381, 10, 8226, 32, 2319, 2325, 2376, 32, 2360, 2350, 2351,
        2350, 2366, 32, 2343, 2375, 2352, 2376, 32, 2346, 2381, 2352, 2358, 2381, 2344, 32,
        2344, 2360, 2379, 2343, 2381, 2344, 2369, 2361, 2379, 2360, 2381>>,
     nepglish |->
        <<42, 42, 9888, 65039, 32, 82, 101, 113, 117, 101, 115, 116, 32, 76, 105, 109, 105, 116,
        32, 82, 101, 97, 99, 104, 101, 100, 42, 42, 10, 10, 75, 114, 105, 112, 97, 121, 97, 32,
        49, 45, 50, 32, 109, 105, 110, 117, 116, 101, 32, 119, 97, 105, 116, 32, 103, 97, 114,
        110, 117, 115, 46, 32, 70, 114, 101, 101, 32, 116, 105, 101, 114, 32, 109, 97, 32, 108,
        105, 109, 105, 116, 101, 100, 32, 114, 101, 113, 117, 101, 115, 116, 115, 32, 99, 104,
        97, 110, 46, 10, 10, 42, 42, 83, 117, 103, 103, 101, 115, 116, 105, 111, 110, 115, 58,
        42, 42, 10, 8226, 32, 65, 115, 107, 32, 99, 111, 110, 99, 105, 115, 101, 32, 113, 117,
        101, 115, 116, 105, 111, 110, 115, 10, 8226, 32, 84, 114, 121, 32, 97, 103, 97, 105,
        110, 32, 97, 102, 116, 101, 114, 32, 97, 32, 102, 101, 119, 32, 109, 105, 110, 117, 116,
        101, 115, 10, 8226, 32, 68, 111, 110, 39, 116, 32, 115, 101, 110, 100, 32, 109, 117,
        108, 116, 105, 112, 108, 101, 32, 113, 117, 101, 115, 116, 105, 111, 110, 115, 32, 97,
        116, 32, 111, 110, 99, 101>>,
     english |->
        <<42, 42, 9888, 65039, 32, 82, 101, 113, 117, 101, 115, 116, 32, 76, 105, 109, 105, 116,
        32, 82, 101, 97, 99, 104, 101, 100, 42, 42, 10, 10, 80, 108, 101, 97, 115, 101, 32, 119,
        97, 105, 116, 32, 49, 45, 50, 32, 109, 105, 110, 117, 116, 101, 115, 46, 32, 70, 114,
        101, 101, 32, 116, 105, 101, 114, 32, 104, 97, 115, 32, 108, 105, 109, 105, 116, 101,
        100, 32, 114, 101, 113, 117, 101, 115, 116, 115, 46, 10, 10, 42, 42, 83, 117, 103, 103,
        101, 115, 116, 105, 111, 110, 115, 58, 42, 42, 10, 8226, 32, 65, 115, 107, 32, 99, 111,
        110, 99, 105, 115, 101, 32, 113, 117, 101, 115, 116, 105, 111, 110, 115, 10, 8226, 32,
        84, 114, 121, 32, 97, 103, 97, 105, 110, 32, 97, 102, 116, 101, 114, 32, 97, 32, 102,
        101, 119, 32, 109, 105, 110, 117, 116, 101, 115, 10, 8226, 32, 68, 111, 110, 39, 116,
        32, 115, 101, 110, 100, 32, 109, 117, 108, 116, 105, 112, 108, 101, 32, 113, 117, 101,
        115, 116, 105, 111, 110, 115, 32, 97, 116, 32, 111, 110, 99, 101>>]

\* error_messages['timeout']
TIMEOUT_MESSAGES ==
    [devanagari |->
        <<42, 42, 9201, 65039, 32, 82, 101, 115, 112, 111, 110, 115, 101, 32, 84, 105, 109, 101,
        111, 117, 116, 42, 42, 10, 10, 65, 73, 32, 2354, 2366, 2312, 32, 2360, 2350, 2351, 32,
        2354, 2366, 2327, 2381, 2351, 2379, 2404, 32, 2331, 2379, 2335, 2379, 32, 109, 101, 115,
        115, 97, 103, 101, 32, 116, 114, 121, 32, 2327, 2352, 2381, 2344, 2369, 2361, 2379,
        2360, 2381, 32, 2357, 2366, 32, 2325, 2375, 2361, 2368, 32, 2360, 2350, 2351, 32, 2346,
        2331, 2367, 32, 2347, 2375, 2352, 2367, 32, 2360, 2379, 2343, 2381, 2344, 2369, 2361,
        2379, 2360, 2381, 2404>>,
     nepglish |->
        <<42, 42, 9201, 65039, 32, 82, 101, 115, 112, 111, 110, 115, 101, 32, 84, 105, 109, 101,
        111, 117, 116, 42, 42, 10, 10, 65, 73, 32, 108, 97, 105, 32, 116, 105, 109, 101, 32,
        108, 97, 103, 121, 111, 46, 32, 84, 114, 121, 32, 97, 32, 115, 104, 111, 114, 116, 101,
        114, 32, 109, 101, 115, 115, 97, 103, 101, 32, 111, 114, 32, 97, 115, 107, 32, 97, 103,
        97, 105, 110, 32, 108, 97, 116, 101, 114, 46>>,
     english |->
        <<42, 42, 9201, 65039, 32, 82, 101, 115, 112, 111, 110, 115, 101, 32, 84, 105, 109, 101,
        111, 117, 116, 42, 42, 10, 10, 65, 73, 32, 116, 111, 111, 107, 32, 116, 111, 111, 32,
        108, 111, 110, 103, 32, 116, 111, 32, 114, 101, 115, 112, 111, 110, 100, 46, 32, 84,
        114, 121, 32, 97, 32, 115, 104, 111, 114, 116, 101, 114, 32, 109, 101, 115, 115, 97,
        103, 101, 32, 111, 114, 32, 97, 115, 107, 32, 97, 103, 97, 105, 110, 32, 108, 97, 116,
        101, 114, 46>>]

\* error_messages['generic'], up to the text of the error
GENERIC_MESSAGES ==
    [devanagari |->
        <<42, 42, 10060, 32, 2340, 2381, 2352, 2369, 2335, 2367, 32, 2349, 2351, 2379, 42, 42, 10,
        10, 2325, 2371, 2346, 2351, 2366, 32, 2347, 2375, 2352, 2367, 32, 2346, 2381, 2352,
        2351, 2366, 2360, 32, 2327, 2352, 2381, 2344, 2369, 2361, 2379, 2360, 2381, 2404, 10,
        10, 69, 114, 114, 111, 114, 58, 32>>,
     nepglish |->
        <<42, 42, 10060, 32, 69, 114, 114, 111, 114, 32, 66, 104, 97, 121, 111, 42, 42, 10, 10,
        75, 114, 105, 112, 97, 121, 97, 32, 102, 101, 114, 105, 32, 116, 114, 121, 32, 103, 97,
        114, 110, 117, 115, 46, 10, 10, 69, 114, 114, 111, 114, 58, 32>>,
     english |->
        <<42, 42, 10060, 32, 65, 110, 32, 69, 114, 114, 111, 114, 32, 79, 99, 99, 117, 114, 114,
        101, 100, 42, 42, 10, 10, 80, 108, 101, 97, 115, 101, 32, 116, 114, 121, 32, 97, 103,
        97, 105, 110, 46, 10, 10, 69, 114, 114, 111, 114, 58, 32>>]

\* needs_web_search: current_keywords and time_phrases
CURRENT_KEYWORDS == {
    <<99, 117, 114, 114, 101, 110, 116>>,
    <<108, 97, 116, 101, 115, 116>>,
    <<114, 101, 99, 101, 110, 116>>,
    <<110, 101, 119>>,
    <<110, 111, 119>>,
    <<116, 111, 100, 97, 121>>,
    <<112, 114, 105, 109, 101, 32, 109, 105, 110, 105, 115, 116, 101, 114>>,
    <<112, 114, 101, 115, 105, 100, 101, 110, 116>>,
    <<112, 109>>,
    <<103, 111, 118, 101, 114, 110, 109, 101, 110, 116>>,
    <<109, 105, 110, 105, 115, 116, 101, 114>>,
    <<99, 97, 98, 105, 110, 101, 116>>,
    <<101, 108, 101, 99, 116, 105, 111, 110>>,
    <<114, 101, 115, 117, 108, 116>>,
    <<50, 48, 50, 53>>,
    <<50, 48, 50, 54>>,
    <<116, 104, 105, 115, 32, 121, 101, 97, 114>>,
    <<97, 115, 32, 111, 102, 32, 110, 111, 119>>,
    <<98, 114, 101, 97, 107, 105, 110, 103, 32, 110, 101, 119, 115>>,
    <<108, 97, 116, 101, 115, 116, 32, 117, 112, 100, 97, 116, 101>>,
    <<106, 117, 115, 116, 32, 97, 110, 110, 111, 117, 110, 99, 101, 100>>,
    <<2344, 2375, 2346, 2366, 2354, 2325, 2379>>,
    <<2346, 2381, 2352, 2343, 2366, 2344, 2350, 2344, 2381, 2340, 2381, 2352, 2368>>,
    <<2352, 2366, 2359, 2381, 2335, 2381, 2352, 2346, 2340, 2367>>,
    <<2360, 2352, 2325, 2366, 2352>>,
    <<2357, 2352, 2381, 2340, 2350, 2366, 2344>>,
    <<2361, 2366, 2354, 2325, 2379>>,
    <<2344, 2351, 2366, 2305>>,
    <<2340, 2366, 2332, 2366>>,
    <<2310, 2332>>,
    <<2349, 2352, 2381, 2326, 2352>> }

TIME_PHRASES == {
    <<119, 104, 111, 32, 105, 115, 32, 99, 117, 114, 114, 101, 110, 116>>,
    <<119, 104, 97, 116, 32, 105, 115, 32, 99, 117, 114, 114, 101, 110, 116>>,
    <<108, 97, 116, 101, 115, 116, 32, 110, 101, 119, 115>>,
    <<114, 101, 99, 101, 110, 116, 32, 100, 101, 118, 101, 108, 111, 112, 109, 101, 110, 116>>,
    <<116, 111, 100, 97, 121, 39, 115, 32, 117, 112, 100, 97, 116, 101>>,
    <<110, 111, 119, 32, 115, 101, 114, 118, 105, 110, 103>>,
    <<99, 117, 114, 114, 101, 110, 116, 32, 115, 105, 116, 117, 97, 116, 105, 111, 110>>,
    <<112, 114, 101, 115, 101, 110, 116, 32, 103, 111, 118, 101, 114, 110, 109, 101, 110, 116>> }

Min(a, b) == IF a =< b THEN a ELSE b

\* s[:n]
Take(s, n) == SubSeq(s, 1, Min(n, Len(s)))

\* MessageValidator.validate
validate(message) ==
    IF message = <<>>
    THEN [is_valid |-> FALSE, error |-> VALIDATION_ERRORS.empty]
    ELSE IF Len(Strip(message)) < MIN_QUERY_LENGTH
    THEN [is_valid |-> FALSE, error |-> VALIDATION_ERRORS.short]
    ELSE IF Len(Strip(message)) > MAX_MESSAGE_LENGTH
    THEN [is_valid |-> FALSE, error |-> VALIDATION_ERRORS.long]
    ELSE [is_valid |-> TRUE, error |-> <<>>]

\* re.sub(r'\s+', ' ', s)
RECURSIVE CollapseWhitespace(_)
CollapseWhitespace(s) ==
    IF s = <<>> THEN <<>>
    ELSE IF IsSpace(s[1]) THEN <<32>> \o CollapseWhitespace(LStrip(s))
    ELSE <<s[1]>> \o CollapseWhitespace(Tail(s))

\* MessageValidator.sanitize
sanitize(message) == Strip(CollapseWhitespace(message))

\* s.replace(p, '')
RECURSIVE RemoveAll(_, _)
RemoveAll(s, p) ==
    IF s = <<>> THEN <<>>
    ELSE IF HasPrefix(s, p) THEN RemoveAll(Drop(s, Len(p)), p)
    ELSE <<s[1]>> \o RemoveAll(Tail(s), p)

\* SessionStateManager.add_to_history
add_to_history(history, query) ==
    IF /\ \A i \in DOMAIN history : history[i] # query
       /\ Len(Strip(query)) > MIN_QUERY_LENGTH
       /\ ~HasPrefix(query, <<47>>)
    THEN Take(<<query>> \o history, MAX_HISTORY)
    ELSE history

\* language_map.get(script, 'en')
language_map(s) == IF s \in {"devanagari", "nepglish"} THEN "np" ELSE "en"

\* ResponseProcessor.format_error(error, script), error given by str(error)
format_error(error, s) ==
    LET error_str == Lower(error)
        error_type == IF \/ Contains(error_str, MARKERS.quota)
                         \/ Contains(error_str, MARKERS.code)
                      THEN "rate_limit"
                      ELSE IF Contains(error_str, MARKERS.timeout)
                      THEN "timeout"
                      ELSE "generic"
        table == IF error_type = "rate_limit" THEN RATE_LIMIT_MESSAGES
                 ELSE IF error_type = "timeout" THEN TIMEOUT_MESSAGES
                 ELSE [r \in DOMAIN GENERIC_MESSAGES |->
                         GENERIC_MESSAGES[r] \o Take(error, ERROR_LIMIT)]
    IN  IF s \in DOMAIN table THEN table[s] ELSE table["english"]

\* tagged_message of send_message
tagged_message(message, s) == INSTRUCTIONS[s] \o USER_LINE \o message

\* AIChatManager.send_message, the model answering with a text or with a fault:
\* the cleaned text, or the exception raised in place of the fault
send_message(message, s, reply) ==
    IF reply.kind = "text"
    THEN [raised |-> FALSE, value |-> clean(reply.text)]
    ELSE [raised |-> TRUE,
          value |-> FAILED_PREFIX \o Take(reply.text, ERROR_LIMIT)]

\* needs_web_search(prompt) of src/web_search.py
needs_web_search(prompt) ==
    \E k \in CURRENT_KEYWORDS \cup TIME_PHRASES : Contains(Lower(prompt), k)

\* the model is called whatever the FAQ lookup returned
AfterFaq_Always(faq_answer) == "limit"

\* if faq_answer: ... return; otherwise the rate limiter is next
AfterFaq(faq_answer) == IF Truthy(faq_answer) THEN "idle" ELSE "limit"

\* the handler appends nothing
ExceptBranch_Silent(chat, error_msg) == chat

\* except Exception as e: ... st.session_state.messages.append(error_msg)
ExceptBranch(chat, error_msg) ==
    Append(chat, [role |-> "assistant", content |-> error_msg])

(* The requests made and the model's answers *)

\* GEMINI_API_KEY: not set (or empty), set to a key the model's service
\* rejects, set to a key it accepts
Keys == {"missing", "invalid", "valid"}

\* the text main shows with st.error when there is no key
API_KEY_REQUIRED ==
    <<10, 32, 32, 32, 32, 32, 32, 32, 32, 35, 35, 32, 128273, 32, 65, 80, 73, 32, 75, 101, 121,
      32, 82, 101, 113, 117, 105, 114, 101, 100, 10, 32, 32, 32, 32, 32, 32, 32, 32, 10, 32,
      32, 32, 32, 32, 32, 32, 32, 42, 42, 70, 111, 114, 32, 83, 116, 114, 101, 97, 109, 108,
      105, 116, 32, 67, 108, 111, 117, 100, 58, 42, 42, 10, 32, 32, 32, 32, 32, 32, 32, 32, 49,
      46, 32, 71, 111, 32, 116, 111, 32, 97, 112, 112, 32, 115, 101, 116, 116, 105, 110, 103,
      115, 32, 8594, 32, 83, 101, 99, 114, 101, 116, 115, 10, 32, 32, 32, 32, 32, 32, 32, 32,
      50, 46, 32, 65, 100, 100, 58, 32, 96, 71, 69, 77, 73, 78, 73, 95, 65, 80, 73, 95, 75, 69,
      89, 32, 61, 32, 34, 121, 111, 117, 114, 45, 107, 101, 121, 45, 104, 101, 114, 101, 34,
      96, 10, 32, 32, 32, 32, 32, 32, 32, 32, 10, 32, 32, 32, 32, 32, 32, 32, 32, 42, 42, 70,
      111, 114, 32, 76, 111, 99, 97, 108, 32, 68, 101, 118, 101, 108, 111, 112, 109, 101, 110,
      116, 58, 42, 42, 10, 32, 32, 32, 32, 32, 32, 32, 32, 49, 46, 32, 67, 114, 101, 97, 116,
      101, 32, 96, 46, 101, 110, 118, 96, 32, 102, 105, 108, 101, 10, 32, 32, 32, 32, 32, 32,
      32, 32, 50, 46, 32, 65, 100, 100, 58, 32, 96, 71, 69, 77, 73, 78, 73, 95, 65, 80, 73, 95,
      75, 69, 89, 61, 121, 111, 117, 114, 45, 107, 101, 121, 45, 104, 101, 114, 101, 96, 10,
      32, 32, 32, 32, 32, 32, 32, 32, 10, 32, 32, 32, 32, 32, 32, 32, 32, 71, 101, 116, 32,
      121, 111, 117, 114, 32, 107, 101, 121, 32, 102, 114, 111, 109, 58, 32, 104, 116, 116,
      112, 115, 58, 47, 47, 97, 105, 115, 116, 117, 100, 105, 111, 46, 103, 111, 111, 103, 108,
      101, 46, 99, 111, 109, 47, 97, 112, 112, 47, 97, 112, 105, 107, 101, 121, 10, 32, 32, 32,
      32, 32, 32, 32, 32>>

\* what the model's service answers to a call made with a key it rejects:
\* "400 API key not valid. Please pass a valid API key."
KEY_FAULT ==
    <<52, 48, 48, 32, 65, 80, 73, 32, 107, 101, 121, 32, 110, 111, 116, 32, 118, 97, 108, 105,
      100, 46, 32, 80, 108, 101, 97, 115, 101, 32, 112, 97, 115, 115, 32, 97, 32, 118, 97, 108,
      105, 100, 32, 65, 80, 73, 32, 107, 101, 121, 46>>

NoReply == [kind |-> "none", text |-> <<>>]

\* "", one native-script letter, 2001 letters, "What is Kancha AI?", "is", the
\* third question of FAQ_DATA['np'], two native-script letters, three newlines
\* and "x", "/summarize", "/summarize" with a native-script word of 7
\* characters, "hello  there", "latest news", "ma ko"
Inputs == {
    <<>>,
    <<2325>>,
    Repeat(120, MAX_MESSAGE_LENGTH + 1),
    <<87, 104, 97, 116, 32, 105, 115, 32, 75, 97, 110, 99, 104, 97, 32, 65, 73, 63>>,
    <<105, 115>>,
    <<2342, 2358, 2376, 2306, 32, 2346, 2352, 2381, 2357>>,
    <<2325, 2325, 10, 10, 10, 120>>,
    <<47, 115, 117, 109, 109, 97, 114, 105, 122, 101>>,
    <<47, 115, 117, 109, 109, 97, 114, 105, 122, 101, 32, 2344, 2375, 2346, 2366, 2354, 2325,
      2379>>,
    <<104, 101, 108, 108, 111, 32, 32, 116, 104, 101, 114, 101>>,
    <<108, 97, 116, 101, 115, 116, 32, 110, 101, 119, 115>>,
    <<109, 97, 32, 107, 111>> }

\* "Namaste", "see http://a.b [Match 1]"
Replies == {
    <<78, 97, 109, 97, 115, 116, 101>>,
    <<115, 101, 101, 32, 104, 116, 116, 112, 58, 47, 47, 97, 46, 98, 32, 91, 77, 97, 116, 99,
      104, 32, 49, 93>> }

\* "429 Resource has been exhausted (e.g. check quota).",
\* "Timeout of 30.0s exceeded", "Connection reset", 96 letters then "quota",
\* "timeout" then 93 letters then " quota", 100 letters then " timeout",
\* "GET https://a.b failed", and KEY_FAULT
Faults == {
    KEY_FAULT,
    <<71, 69, 84, 32, 104, 116, 116, 112, 115, 58, 47, 47, 97, 46, 98, 32, 102, 97, 105, 108, 101, 100>>,
    <<52, 50, 57, 32, 82, 101, 115, 111, 117, 114, 99, 101, 32, 104, 97, 115, 32, 98, 101, 101,
      110, 32, 101, 120, 104, 97, 117, 115, 116, 101, 100, 32, 40, 101, 46, 103, 46, 32, 99,
      104, 101, 99, 107, 32, 113, 117, 111, 116, 97, 41, 46>>,
    <<84, 105, 109, 101, 111, 117, 116, 32, 111, 102, 32, 51, 48, 46, 48, 115, 32, 101, 120, 99,
      101, 101, 100, 101, 100>>,
    <<67, 111, 110, 110, 101, 99, 116, 105, 111, 110, 32, 114, 101, 115, 101, 116>>,
    Repeat(120, 96) \o <<113, 117, 111, 116, 97>>,
    <<116, 105, 109, 101, 111, 117, 116>> \o Repeat(120, 93) \o <<32, 113, 117, 111, 116, 97>>,
    Repeat(120, 100) \o <<32, 116, 105, 109, 101, 111, 117, 116>> }

ModelReplies ==
    {[kind |-> "text", text |-> r] : r \in Replies}
        \cup {[kind |-> "fault", text |-> f] : f \in Faults}

\* A session as SessionStateManager.initialize leaves it: its own limiter, an
\* empty chat.
InitRouter ==
    /\ InitLocals
    /\ calls_per_minute =
         [l \in Limiters |-> RateLimiter(API_CALLS_PER_MINUTE).calls_per_minute]
    /\ calls = [l \in Limiters |-> RateLimiter(API_CALLS_PER_MINUTE).calls]
    /\ lim = [t \in Threads |-> IF t = 1 THEN 1 ELSE NoLimiter]
    /\ NoMessage
    /\ NoPipeline
    /\ api_key \in Keys

\* lines 546-586 of process_user_message for the text typed: validation,
\* sanitizing, the /summarize command, the script and the FAQ lookup
Prepare(input) ==
    LET checked == validate(input)
        sanitized == sanitize(input)
        is_command == \/ HasPrefix(sanitized, COMMANDS.summarize)
                      \/ HasPrefix(sanitized, COMMANDS.summary)
        text_to_summarize ==
            Strip(RemoveAll(RemoveAll(sanitized, COMMANDS.summarize),
                            COMMANDS.summary))
        rewritten == IF is_command
                     THEN COMMANDS.instruction \o text_to_summarize
                     ELSE sanitized
        detected == detect(rewritten)
        faq_answer == FAQHandler_get_answer(rewritten, language_map(detected),
                                            FAQ_THRESHOLD)
    IN  IF ~checked.is_valid
        THEN [step |-> "invalid", error |-> checked.error, sanitized |-> <<>>,
              user_input |-> input, script |-> "none", faq_answer |-> None]
        ELSE IF is_command /\ text_to_summarize = <<>>
        THEN [step |-> "usage", error |-> <<>>, sanitized |-> sanitized,
              user_input |-> sanitized, script |-> detect(sanitized),
              faq_answer |-> None]
        ELSE [step |-> "lookup", error |-> <<>>, sanitized |-> sanitized,
              user_input |-> rewritten, script |-> detected,
              faq_answer |-> faq_answer]

Prepared == [input \in Inputs |-> Prepare(input)]

\* lines 597-615 for the query and script the model is called with and what
\* the model answers: the assistant message, and whether it is the handler's
Answer(query, s, reply) ==
    LET sent == send_message(query, s, reply) IN
    [raised |-> sent.raised,
     content |-> IF sent.raised
                 THEN format_error(sent.value, detect(query))
                 ELSE sent.value,
     tagged |-> tagged_message(query, s)]

Answers ==
    [query \in {Prepared[input].user_input : input \in Inputs}, s \in Tags,
     reply \in ModelReplies |-> Answer(query, s, reply)]

\* main, up to the chat input: without a key it shows API_KEY_REQUIRED and
\* stops; with one it builds the chat manager, which does not call the model
Main ==
    /\ chat_manager = "none"
    /\ outcome # "stopped"
    /\ IF api_key = "missing"
       THEN /\ banner' = API_KEY_REQUIRED
            /\ outcome' = "stopped"
            /\ UNCHANGED chat_manager
       ELSE /\ chat_manager' = "ready"
            /\ UNCHANGED <<banner, outcome>>
    /\ UNCHANGED <<messages, query_history, stage, typed, user_input, script,
                   trace, api_key>>
    /\ UNCHANGED <<limiterVars, detectVars, faqVars, cleanVars, searchVars>>

\* process_user_message(input), up to its return or to the call of the rate
\* limiter
Process_Begin(t, input) ==
    /\ chat_manager = "ready"
    /\ Running(t)
    /\ pc[t] = "idle"
    /\ stage = "idle"
    /\ Len(messages) + 2 =< MaxMessages
    /\ Len(admissions) < MaxRequests
    /\ typed' = input
    /\ user_input' = Prepared[input].user_input
    /\ script' = Prepared[input].script
    /\ LET asked == Append(messages, [role |-> "user",
                                      content |-> Prepared[input].sanitized])
           faq_answer == Prepared[input].faq_answer
           heading == IF Prepared[input].script = "devanagari"
                      THEN QUICK_ANSWER.devanagari ELSE QUICK_ANSWER.other
       IN  IF Prepared[input].step = "invalid"
           THEN \* st.error(...); return
                /\ banner' = ERROR_MARK \o Prepared[input].error
                /\ outcome' = "invalid"
                /\ stage' = "idle"
                /\ trace' = <<>>
                /\ UNCHANGED <<messages, query_history>>
           ELSE IF Prepared[input].step = "usage"
           THEN \* the usage text is returned, and no caller shows it
                /\ banner' = <<>>
                /\ outcome' = "usage"
                /\ stage' = "idle"
                /\ trace' = <<>>
                /\ messages' = asked
                /\ query_history' =
                     add_to_history(query_history, Prepared[input].sanitized)
           ELSE /\ banner' = <<>>
                /\ outcome' = IF Truthy(faq_answer) THEN "faq" ELSE "none"
                /\ stage' = AfterFaq(faq_answer)
                /\ trace' = <<[call |-> "get_answer",
                               arg |-> Prepared[input].user_input,
                               reply |-> NoReply]>>
                /\ messages' =
                     IF Truthy(faq_answer)
                     THEN Append(asked, [role |-> "assistant",
                                         content |-> heading \o faq_answer.value])
                     ELSE asked
                /\ query_history' =
                     add_to_history(query_history, Prepared[input].sanitized)
    /\ UNCHANGED <<api_key, chat_manager>>
    /\ UNCHANGED <<limiterVars, detectVars, faqVars, cleanVars, searchVars>>

\* the limiter is not asked before the model is called
Process_WaitIfNeeded_Skipped(t) ==
    /\ Running(t)
    /\ pc[t] = "idle"
    /\ stage = "limit"
    /\ pc' = [pc EXCEPT ![t] = "returned"]
    /\ ret' = [ret EXCEPT ![t] = [op |-> "wait_if_needed", value |-> 0]]
    /\ stage' = "wait"
    /\ UNCHANGED <<clock, calls_per_minute, calls, lim, now, seen, filtered,
                   oldest, wake, admissions, ticks>>
    /\ UNCHANGED <<messages, query_history, typed, user_input, script, trace,
                   banner, outcome, api_key, chat_manager>>
    /\ UNCHANGED <<detectVars, faqVars, cleanVars, searchVars>>

\* st.session_state.rate_limiter.wait_if_needed(): the method is entered
Process_WaitIfNeeded(t) ==
    /\ Running(t)
    /\ pc[t] = "idle"
    /\ stage = "limit"
    /\ now' = [now EXCEPT ![t] = clock]
    /\ pc' = [pc EXCEPT ![t] = "prune"]
    /\ stage' = "wait"
    /\ trace' = Append(trace, [call |-> "wait_if_needed", arg |-> <<>>,
                               reply |-> NoReply])
    /\ UNCHANGED <<clock, calls_per_minute, calls, lim, seen, filtered, oldest,
                   wake, ret, admissions, ticks>>
    /\ UNCHANGED <<messages, query_history, typed, user_input, script, banner,
                   outcome, api_key, chat_manager>>
    /\ UNCHANGED <<detectVars, faqVars, cleanVars, searchVars>>

\* wait_if_needed has returned: chat_manager.send_message(user_input, script),
\* the model answering with reply; the answer, or the message of the except
\* branch, is appended and process_user_message returns
Process_SendMessage(t, reply) ==
    /\ stage = "wait"
    /\ api_key = "invalid" <=> reply = [kind |-> "fault", text |-> KEY_FAULT]
    /\ pc[t] = "returned"
    /\ ret[t].op = "wait_if_needed"
    /\ pc' = [pc EXCEPT ![t] = "idle"]
    /\ now' = [now EXCEPT ![t] = 0]
    /\ seen' = [seen EXCEPT ![t] = <<>>]
    /\ filtered' = [filtered EXCEPT ![t] = <<>>]
    /\ oldest' = [oldest EXCEPT ![t] = 0]
    /\ wake' = [wake EXCEPT ![t] = 0]
    /\ ret' = [ret EXCEPT ![t] = NoRet]
    /\ LET answer == Answers[user_input, script, reply] IN
       /\ trace' = Append(trace, [call |-> "chat.send_message",
                                  arg |-> answer.tagged, reply |-> reply])
       /\ messages' = IF answer.raised
                      THEN ExceptBranch(messages, answer.content)
                      ELSE Append(messages, [role |-> "assistant",
                                             content |-> answer.content])
       /\ outcome' = IF answer.raised THEN "failed" ELSE "answered"
    /\ stage' = "idle"
    /\ UNCHANGED <<clock, calls_per_minute, calls, lim, admissions, ticks>>
    /\ UNCHANGED <<query_history, typed, user_input, script, banner, api_key,
                   chat_manager>>
    /\ UNCHANGED <<detectVars, faqVars, cleanVars, searchVars>>

\* SessionStateManager.clear_chat
ClearChat ==
    /\ stage = "idle"
    /\ messages # <<>>
    /\ messages' = <<>>
    /\ query_history' = <<>>
    /\ UNCHANGED <<stage, typed, user_input, script, trace, banner, outcome,
                   api_key, chat_manager>>
    /\ UNCHANGED <<limiterVars, detectVars, faqVars, cleanVars, searchVars>>

\* The requests of one session follow one another without a pause, which is
\* when the limiter has the most to do.
NextRouter ==
    \/ Main
    \/ \E t \in Threads : \E input \in Inputs : Process_Begin(t, input)
    \/ \E t \in Threads : Process_WaitIfNeeded(t)
    \/ \E t \in Threads : Prune_Load(t)
    \/ \E t \in Threads : WaitIfNeeded_Store(t)
    \/ \E t \in Threads : WaitIfNeeded_Check(t)
    \/ \E t \in Threads : WaitIfNeeded_Oldest(t)
    \/ \E t \in Threads : WaitIfNeeded_Wake(t)
    \/ \E t \in Threads : WaitIfNeeded_Reset(t)
    \/ \E t \in Threads : WaitIfNeeded_Append(t)
    \/ \E t \in Threads : \E reply \in ModelReplies : Process_SendMessage(t, reply)
    \/ ClearChat

SpecRouter == InitRouter /\ [][NextRouter]_vars

----------------------------------------------------------------------------
(* WebSearcher: the provider cascades of search *)

MaxHits == 2             \* entries one provider's page can yield

\* search(self, query, max_results=3)
DEFAULT_MAX_RESULTS == 3

\* _is_political_query: political_keywords
POLITICAL_KEYWORDS == {
    <<112, 114, 105, 109, 101, 32, 109, 105, 110, 105, 115, 116, 101, 114>>,
    <<112, 114, 101, 115, 105, 100, 101, 110, 116>>,
    <<112, 109>>,
    <<103, 111, 118, 101, 114, 110, 109, 101, 110, 116>>,
    <<109, 105, 110, 105, 115, 116, 101, 114>>,
    <<99, 97, 98, 105, 110, 101, 116>>,
    <<104, 101, 97, 100, 32, 111, 102, 32, 115, 116, 97, 116, 101>>,
    <<104, 101, 97, 100, 32, 111, 102, 32, 103, 111, 118, 101, 114, 110, 109, 101, 110,
      116>>,
    <<2346, 2381, 2352, 2343, 2366, 2344, 2350, 2344, 2381, 2340, 2381, 2352, 2368>>,
    <<2352, 2366, 2359, 2381, 2335, 2381, 2352, 2346, 2340, 2367>>,
    <<2360, 2352, 2325, 2366, 2352>>,
    <<2350, 2344, 2381, 2340, 2381, 2352, 2368>>}

\* any(keyword in query_lower for keyword in political_keywords)
is_political_query(q) == \E k \in POLITICAL_KEYWORDS : Contains(Lower(q), k)

\* the rewritten queries of the prime-minister branch
PRIME_MINISTER_QUERIES == <<
    <<78, 101, 112, 97, 108, 32, 99, 117, 114, 114, 101, 110, 116, 32, 80, 114, 105, 109,
      101, 32, 77, 105, 110, 105, 115, 116, 101, 114, 32, 50, 48, 50, 53, 32, 50, 48, 50,
      54, 32, 108, 97, 116, 101, 115, 116>>,
    <<87, 104, 111, 32, 105, 115, 32, 80, 114, 105, 109, 101, 32, 77, 105, 110, 105, 115,
      116, 101, 114, 32, 111, 102, 32, 78, 101, 112, 97, 108, 32, 110, 111, 119>>,
    <<2344, 2351, 2366, 2305, 32, 2346, 2381, 2352, 2343, 2366, 2344, 2350, 2344, 2381,
      2340, 2381, 2352, 2368, 32, 2344, 2375, 2346, 2366, 2354, 32, 2408, 2406, 2408, 2412>>>>

\* the rewritten queries of the president branch
PRESIDENT_QUERIES == <<
    <<78, 101, 112, 97, 108, 32, 80, 114, 101, 115, 105, 100, 101, 110, 116, 32, 50, 48,
      50, 53, 32, 50, 48, 50, 54, 32, 99, 117, 114, 114, 101, 110, 116>>,
    <<87, 104, 111, 32, 105, 115, 32, 80, 114, 101, 115, 105, 100, 101, 110, 116, 32, 111,
      102, 32, 78, 101, 112, 97, 108, 32, 110, 111, 119>>,
    <<2344, 2375, 2346, 2366, 2354, 2325, 2379, 32, 2352, 2366, 2359, 2381, 2335, 2381,
      2352, 2346, 2340, 2367, 32, 2408, 2406, 2408, 2412>>>>

\* _search_political_info: search_queries.  'prime minister', 'pm' and
\* 'president' are looked for in the lowered query, 'प्रधानमन्त्री' and
\* 'राष्ट्रपति' in the query as given; the last branch appends
\* " Nepal latest 2025 2026".
political_queries(q) ==
    IF \/ Contains(Lower(q), <<112, 114, 105, 109, 101, 32, 109, 105, 110, 105, 115, 116, 101, 114>>)
       \/ Contains(Lower(q), <<112, 109>>)
       \/ Contains(q, <<2346, 2381, 2352, 2343, 2366, 2344, 2350, 2344, 2381, 2340, 2381, 2352, 2368>>)
    THEN PRIME_MINISTER_QUERIES
    ELSE IF \/ Contains(Lower(q), <<112, 114, 101, 115, 105, 100, 101, 110, 116>>)
            \/ Contains(q, <<2352, 2366, 2359, 2381, 2335, 2381, 2352, 2346, 2340, 2367>>)
    THEN PRESIDENT_QUERIES
    ELSE <<q \o <<32, 78, 101, 112, 97, 108, 32, 108, 97, 116, 101, 115, 116, 32, 50, 48,
                  50, 53, 32, 50, 48, 50, 54>>>>

\* The queries searched for: "who is the current prime minister", "PM Oli",
\* "nepal president", "who is head of state", "गृह मन्त्री को हो",
\* "cabinet reshuffle", "weather in pokhara"
SearchQueries == {
    <<119, 104, 111, 32, 105, 115, 32, 116, 104, 101, 32, 99, 117, 114, 114, 101, 110,
      116, 32, 112, 114, 105, 109, 101, 32, 109, 105, 110, 105, 115, 116, 101, 114>>,
    <<80, 77, 32, 79, 108, 105>>,
    <<110, 101, 112, 97, 108, 32, 112, 114, 101, 115, 105, 100, 101, 110, 116>>,
    <<119, 104, 111, 32, 105, 115, 32, 104, 101, 97, 100, 32, 111, 102, 32, 115, 116, 97,
      116, 101>>,
    <<2327, 2371, 2361, 32, 2350, 2344, 2381, 2340, 2381, 2352, 2368, 32, 2325, 2379, 32,
      2361, 2379>>,
    <<99, 97, 98, 105, 110, 101, 116, 32, 114, 101, 115, 104, 117, 102, 102, 108, 101>>,
    <<119, 101, 97, 116, 104, 101, 114, 32, 105, 110, 32, 112, 111, 107, 104, 97, 114, 97>>}

\* What requests.get and the parsing of the page come to in one provider call:
\* the request raises, the status is not 200, the parsing raises, or the page
\* yields some entries that pass the provider's filters.
ProviderReplies ==
    {[kind |-> k, hits |-> 0] : k \in {"exception", "status", "parse"}}
        \cup {[kind |-> "page", hits |-> n] : n \in 0 .. MaxHits}

\* result_matches[:max_results], titles[:2], articles[:1], titles[:1]
ProviderCap(provider, max) ==
    CASE provider = "DuckDuckGo" -> max
      [] provider = "Google Search" -> max
      [] provider = "OnlineKhabar" -> 2
      [] provider = "Ekantipur" -> 1
      [] provider = "Setopati" -> 1

\* the entries a page with that many hits gives, in page order
Entries(provider, n) == [i \in 1 .. n |-> [source |-> provider, rank |-> i]]

\* a provider method without its own try: an exception of the request leaves it
provider_call_Unguarded(provider, reply, max) ==
    [raised |-> reply.kind = "exception",
     found |-> IF reply.kind = "page"
               THEN Entries(provider, Min(reply.hits, ProviderCap(provider, max)))
               ELSE <<>>]

\* A provider method (_duckduckgo_search, _try_google_search, _search_onlinekhabar,
\* _search_ekantipur, _search_setopati): its own try turns every exception into
\* [], a status other than 200 gives [], and a page gives its first entries.
provider_call(provider, reply, max) ==
    [raised |-> FALSE,
     found |-> IF reply.kind = "page"
               THEN Entries(provider, Min(reply.hits, ProviderCap(provider, max)))
               ELSE <<>>]

\* the record of one provider call
Invocation(provider, q, reply, r) ==
    [provider |-> provider, q |-> q, reply |-> reply.kind, found |-> Len(r.found)]

\* web_searcher = WebSearcher(): nothing has been searched for
InitSearch ==
    /\ InitLocals
    /\ calls_per_minute = [l \in Limiters |-> 0]
    /\ calls = [l \in Limiters |-> <<>>]
    /\ lim = [t \in Threads |-> NoLimiter]
    /\ NoMessage
    /\ NoPipeline
    /\ api_key = "missing"

\* search(query, max_results) up to its first provider call: political queries
\* go to _search_political_info, which rewrites them, the others to
\* _enhanced_search.  A WebSearcher keeps nothing from one search to the next,
\* so a behaviour follows one call.
WebSearcher_search(q, max) ==
    /\ search_pc = "idle"
    /\ web_query' = q
    /\ max_results' = max
    /\ invoked' = <<>>
    /\ results' = <<>>
    /\ IF is_political_query(q)
       THEN /\ search_queries' = political_queries(q)
            /\ search_pc' = "political"
       ELSE /\ search_queries' = <<q>>
            /\ search_pc' = "enhanced"
    /\ UNCHANGED <<limiterVars, detectVars, faqVars, cleanVars, routerVars>>

\* _search_political_info: one round of "for search_query in search_queries";
\* the first non-empty answer is returned, after the last query the news sites
\* are next.  An exception reaching this method ends the search with [].
Political_DuckDuckGo(reply) ==
    /\ search_pc = "political"
    /\ LET r == provider_call("DuckDuckGo", reply, max_results) IN
       /\ invoked' = Append(invoked, Invocation("DuckDuckGo", Head(search_queries),
                                                reply, r))
       /\ IF r.raised
          THEN /\ results' = <<>>
               /\ search_queries' = <<>>
               /\ search_pc' = "done"
          ELSE IF r.found # <<>>
          THEN /\ results' = r.found
               /\ search_queries' = <<>>
               /\ search_pc' = "done"
          ELSE /\ results' = <<>>
               /\ search_queries' = Tail(search_queries)
               /\ search_pc' = IF Tail(search_queries) # <<>>
                               THEN "political" ELSE "onlinekhabar"
    /\ UNCHANGED <<web_query, max_results>>
    /\ UNCHANGED <<limiterVars, detectVars, faqVars, cleanVars, routerVars>>

\* _search_nepal_news: OnlineKhabar; Ekantipur is asked next while fewer than
\* max_results entries are held
News_OnlineKhabar(reply) ==
    /\ search_pc = "onlinekhabar"
    /\ LET r == provider_call("OnlineKhabar", reply, max_results)
           held == IF r.raised THEN <<>> ELSE Take(r.found, 2)
       IN
       /\ invoked' = Append(invoked, Invocation("OnlineKhabar", web_query, reply, r))
       /\ IF ~r.raised /\ Len(held) < max_results
          THEN /\ results' = held
               /\ search_pc' = "ekantipur"
          ELSE /\ results' = Take(held, max_results)
               /\ search_pc' = "done"
    /\ UNCHANGED <<web_query, max_results, search_queries>>
    /\ UNCHANGED <<limiterVars, detectVars, faqVars, cleanVars, routerVars>>

\* _search_nepal_news: Ekantipur; Setopati is asked next while fewer than
\* max_results entries are held
News_Ekantipur(reply) ==
    /\ search_pc = "ekantipur"
    /\ LET r == provider_call("Ekantipur", reply, max_results)
           held == IF r.raised THEN <<>> ELSE results \o Take(r.found, 1)
       IN
       /\ invoked' = Append(invoked, Invocation("Ekantipur", web_query, reply, r))
       /\ IF ~r.raised /\ Len(held) < max_results
          THEN /\ results' = held
               /\ search_pc' = "setopati"
          ELSE /\ results' = Take(held, max_results)
               /\ search_pc' = "done"
    /\ UNCHANGED <<web_query, max_results, search_queries>>
    /\ UNCHANGED <<limiterVars, detectVars, faqVars, cleanVars, routerVars>>

\* _search_nepal_news: Setopati, then return results[:max_results]
News_Setopati(reply) ==
    /\ search_pc = "setopati"
    /\ LET r == provider_call("Setopati", reply, max_results)
           held == IF r.raised THEN <<>> ELSE results \o Take(r.found, 1)
       IN
       /\ invoked' = Append(invoked, Invocation("Setopati", web_query, reply, r))
       /\ results' = Take(held, max_results)
       /\ search_pc' = "done"
    /\ UNCHANGED <<web_query, max_results, search_queries>>
    /\ UNCHANGED <<limiterVars, detectVars, faqVars, cleanVars, routerVars>>

\* _enhanced_search: DuckDuckGo first; its answer is returned unless empty
Enhanced_DuckDuckGo(reply) ==
    /\ search_pc = "enhanced"
    /\ LET r == provider_call("DuckDuckGo", reply, max_results) IN
       /\ invoked' = Append(invoked, Invocation("DuckDuckGo", Head(search_queries),
                                                reply, r))
       /\ results' = IF r.raised THEN <<>> ELSE r.found
       /\ search_pc' = IF r.raised \/ r.found # <<>> THEN "done" ELSE "google"
    /\ UNCHANGED <<web_query, max_results, search_queries>>
    /\ UNCHANGED <<limiterVars, detectVars, faqVars, cleanVars, routerVars>>

\* _enhanced_search: Google; its answer, empty or not, is what search returns
Enhanced_Google(reply) ==
    /\ search_pc = "google"
    /\ LET r == provider_call("Google Search", reply, max_results) IN
       /\ invoked' = Append(invoked, Invocation("Google Search", Head(search_queries),
                                                reply, r))
       /\ results' = IF r.raised THEN <<>> ELSE r.found
       /\ search_pc' = "done"
    /\ UNCHANGED <<web_query, max_results, search_queries>>
    /\ UNCHANGED <<limiterVars, detectVars, faqVars, cleanVars, routerVars>>

NextSearch ==
    \/ \E q \in SearchQueries : \E max \in 1 .. DEFAULT_MAX_RESULTS :
           WebSearcher_search(q, max)
    \/ \E reply \in ProviderReplies : Political_DuckDuckGo(reply)
    \/ \E reply \in ProviderReplies : News_OnlineKhabar(reply)
    \/ \E reply \in ProviderReplies : News_Ekantipur(reply)
    \/ \E reply \in ProviderReplies : News_Setopati(reply)
    \/ \E reply \in ProviderReplies : Enhanced_DuckDuckGo(reply)
    \/ \E reply \in ProviderReplies : Enhanced_Google(reply)

SpecSearch == InitSearch /\ [][NextSearch]_vars

----------------------------------------------------------------------------
(* Properties of the rate limiter *)

InWaitIfNeeded(t) ==
    pc[t] \in {"prune", "store", "check", "oldest", "sleep", "reset", "append",
               "raised"}

Returned(t, op) == pc[t] = "returned" /\ ret[t].op = op

\* admissions of the given limiters in the 60 seconds that end at instant T
AdmittedInWindow(ls, T) ==
    Cardinality({j \in DOMAIN admissions :
                    /\ admissions[j].limiter \in ls
                    /\ admissions[j].at <= T
                    /\ T - admissions[j].at < Window})

\* C1: on one limiter with calls_per_minute >= 1 used by one caller, the calls
\* admitted in any trailing 60-second window never exceed calls_per_minute.
C1_AdmissionBound ==
    \A i \in DOMAIN admissions :
        LET l == admissions[i].limiter IN
        calls_per_minute[l] >= 1 =>
            AdmittedInWindow({l}, admissions[i].at) <= calls_per_minute[l]

\* C2: with two callers in wait_if_needed at once on one limiter, the call log
\* never holds more than calls_per_minute entries (prune, check and record of
\* one caller are not interleaved with the other's).
C2_CriticalSection ==
    \A l \in Limiters :
        calls_per_minute[l] >= 1 => Len(calls[l]) <= calls_per_minute[l]

\* C3: over all sessions together, the model calls admitted in any trailing
\* 60-second window are at most API_CALLS_PER_MINUTE.
C3_SharedGovernor ==
    \A i \in DOMAIN admissions :
        AdmittedInWindow(Limiters, admissions[i].at) <= API_CALLS_PER_MINUTE

\* C4: when wait_if_needed returns on a limiter of limit L >= 1: if L calls were
\* recorded in the last 60 seconds, at least 60 seconds have passed since the
\* oldest of them and the log holds the new call alone; if fewer were, no time
\* has passed and the new call was added to them.
C4_BlockOrRecord ==
    \A t \in Threads :
        (Returned(t, "wait_if_needed") /\ calls_per_minute[lim[t]] >= 1) =>
            LET recent == InWindow(seen[t], now[t]) IN
            IF Len(recent) >= calls_per_minute[lim[t]]
            THEN /\ clock - recent[1] >= Window
                 /\ calls[lim[t]] = <<now[t]>>
            ELSE /\ clock = now[t]
                 /\ calls[lim[t]] = Append(recent, now[t])

\* a call that found the limit reached has slept and returned
C4_Witness ==
    \E t \in Threads :
        /\ Returned(t, "wait_if_needed")
        /\ calls_per_minute[lim[t]] >= 1
        /\ Len(InWindow(seen[t], now[t])) >= calls_per_minute[lim[t]]
        /\ clock > now[t]

\* C5: no limiter has a limit <= 0, and wait_if_needed never runs on one.
C5_NonPositiveRejected ==
    \A t \in Threads :
        (Running(t) /\ InWaitIfNeeded(t)) => calls_per_minute[lim[t]] >= 1

\* the calls of a log made less than 60 seconds before instant n
RecentCount(log, n) == Cardinality({i \in DOMAIN log : n - log[i] < Window})

\* C6 as stated: get_remaining_calls returns max(0, calls_per_minute - calls
\* recorded in the last 60 seconds) and leaves the call log as it found it.
C6_ReadOnly ==
    \A t \in Threads :
        Returned(t, "get_remaining_calls") =>
            /\ ret[t].value = Max(0, calls_per_minute[lim[t]] - RecentCount(seen[t], clock))
            /\ calls[lim[t]] = seen[t]

\* C6 amended: get_remaining_calls returns without sleeping, its value is
\* max(0, calls_per_minute - calls recorded in the last 60 seconds), and the
\* only change it makes to the call log is to drop the entries that are 60
\* seconds old or older.
C6_PrunesOnly ==
    \A t \in Threads :
        Returned(t, "get_remaining_calls") =>
            /\ clock = now[t]
            /\ ret[t].value = Max(0, calls_per_minute[lim[t]] - RecentCount(seen[t], clock))
            /\ calls[lim[t]] = SelectSeq(seen[t], LAMBDA x : clock - x < Window)

\* the query has returned a positive value after dropping an expired entry
C6_Witness ==
    \E t \in Threads :
        /\ Returned(t, "get_remaining_calls")
        /\ Len(calls[lim[t]]) < Len(seen[t])
        /\ calls[lim[t]] # <<>>
        /\ ret[t].value > 0

\* C28: the timestamp wait_if_needed records for a call is the instant at which
\* the call is released, also when the call had to sleep first.
C28_StampIsRelease ==
    \A i \in DOMAIN admissions : admissions[i].stamp = admissions[i].at

----------------------------------------------------------------------------
(* Properties of the script classifier *)

Classified == tag # "none"

AllWhitespace(s) == \A i \in DOMAIN s : IsSpace(s[i])

\* native-script characters, and characters other than the space, of the
\* trimmed text
NativeCount(s) ==
    LET t == Strip(s) IN Cardinality({i \in DOMAIN t : InDevanagariRanges(t[i])})

NonSpaceCount(s) ==
    LET t == Strip(s) IN Cardinality({i \in DOMAIN t : t[i] # 32})

\* the tokens of the text and those of them that are in the lexicon
Tokens(s) == FindWords(Lower(Strip(s)))

HitsAmong(toks) == Cardinality({i \in DOMAIN toks : toks[i] \in NEPALI_INDICATORS})

Hits(s) == HitsAmong(Tokens(s))

BelowThreshold(s) ==
    LET m == NonSpaceCount(s) IN m > 0 /\ 5 * NativeCount(s) < 2 * m

\* at least 3 tokens, at least 3 of them in the lexicon
ThreeHits(toks) == Len(toks) >= 3 /\ HitsAmong(toks) >= 3

\* C7: for every text, detect returns one of the three tags and does not raise.
C7_Totality == Classified => tag \in Tags

\* a text of whitespace alone has been classified
C7_Witness == tag \in Tags /\ Len(text) > 0 /\ AllWhitespace(text)

\* C8 as stated: every 1-character text and every all-whitespace text is
\* classified english.
C8_ShortOrBlankIsLatin ==
    (Classified /\ (Len(text) = 1 \/ AllWhitespace(text))) => tag = "english"

\* C8 amended: every all-whitespace text, and every 1-character text whose
\* character is not of the native script, is classified english; a 1-character
\* text of the native script is classified devanagari; none raises.
C8_ShortOrBlank ==
    Classified =>
        /\ AllWhitespace(text) => tag = "english"
        /\ (Len(text) = 1 /\ ~InDevanagariRanges(text[1])) => tag = "english"
        /\ (Len(text) = 1 /\ InDevanagariRanges(text[1])) => tag = "devanagari"

\* a single native-script character has been classified
C8_Witness == tag = "devanagari" /\ Len(text) = 1

\* C9: detect returns devanagari exactly when the native-script characters are
\* at least 40% of the characters other than spaces of the trimmed text,
\* whatever lexicon words the text holds.
C9_ScriptThreshold ==
    Classified =>
        (tag = "devanagari" <=>
            (NonSpaceCount(text) > 0 /\ 5 * NativeCount(text) >= 2 * NonSpaceCount(text)))

\* a text at exactly 40% that holds a lexicon word was classified devanagari
C9_Witness ==
    /\ tag = "devanagari"
    /\ 5 * NativeCount(text) = 2 * NonSpaceCount(text)
    /\ Hits(text) >= 1

\* C10 as stated: below the script threshold, a text of at least 3 tokens with
\* at least 3 lexicon tokens is classified nepglish.
C10_ThreeHits ==
    (Classified /\ BelowThreshold(text) /\ ThreeHits(Tokens(text)))
        => tag = "nepglish"

\* C10 amended: below the script threshold, a text of at least 3 tokens with at
\* least 3 lexicon tokens is classified nepglish when the lexicon tokens are at
\* least a quarter of the tokens or the text holds a native-script character,
\* and english otherwise.
QuarterOrNative(s, toks) == 4 * HitsAmong(toks) >= Len(toks) \/ NativeCount(s) > 0

C10_ThreeHitsQuarter ==
    (Classified /\ BelowThreshold(text) /\ ThreeHits(Tokens(text)))
        => IF QuarterOrNative(text, Tokens(text))
           THEN tag = "nepglish"
           ELSE tag = "english"

\* a text of 12 tokens, 3 of them in the lexicon, was classified nepglish
C10_Witness ==
    /\ tag = "nepglish"
    /\ NativeCount(text) = 0
    /\ Len(Tokens(text)) = 12
    /\ Hits(text) = 3

\* C11 as stated: below the script threshold, a text whose lexicon tokens are
\* at least a quarter of its tokens is classified nepglish, texts of 1 or 2
\* tokens with a single lexicon token included.
QuarterHits(toks) == Len(toks) >= 1 /\ 4 * HitsAmong(toks) >= Len(toks)

C11_QuarterRatio ==
    (Classified /\ BelowThreshold(text) /\ QuarterHits(Tokens(text)))
        => tag = "nepglish"

\* C11 amended: below the script threshold, a text whose lexicon tokens are at
\* least a quarter of its tokens is classified nepglish when it has at least 3
\* tokens, or at least 2 lexicon tokens, or a native-script character; a text
\* of 1 or 2 tokens with a single lexicon token and no native-script character
\* is classified english.
ShortSingleHit(s, toks) ==
    Len(toks) < 3 /\ HitsAmong(toks) = 1 /\ NativeCount(s) = 0

C11_QuarterRatioLong ==
    (Classified /\ BelowThreshold(text) /\ QuarterHits(Tokens(text)))
        => IF ShortSingleHit(text, Tokens(text))
           THEN tag = "english"
           ELSE tag = "nepglish"

\* the one-token text "ma", a lexicon word, was classified english
C11_Witness ==
    /\ tag = "english"
    /\ Len(Tokens(text)) = 1
    /\ Hits(text) = 1
    /\ NativeCount(text) = 0

----------------------------------------------------------------------------
(* Properties of the FAQ lookups *)

\* the lookups made so far
LookupsMade == {l \in {"last", "before"} :
                  (IF l = "last" THEN lookup ELSE previous).fn # "none"}

LookupOf(l) == IF l = "last" THEN lookup ELSE previous

\* the lookup returned an answer
Answered(l) == IF l.fn = "search" THEN l.result.found ELSE l.result.given

\* some entry of the corpus the lookup searches is at least as similar to the
\* query as the threshold asks
ClearsThreshold(l) ==
    IF l.fn = "handler"
    THEN faq_similarity >= l.threshold
    ELSE \E i \in DOMAIN similarity : similarity[i] >= l.threshold

\* C12: no FAQ lookup (FAQSearcher.search, FAQSearcher.get_answer,
\* FAQHandler.get_answer) returns an answer when the best similarity of the
\* query with the corpus is below the threshold it was given.
C12_AboveThreshold ==
    \A l \in LookupsMade :
        Answered(LookupOf(l)) => ClearsThreshold(LookupOf(l))

\* C13: of two lookups of the same kind for the same query, a hit at the
\* higher threshold comes with a hit at the lower one.
C13_Monotone ==
    (previous.fn # "none" /\ previous.fn = lookup.fn) =>
        /\ (previous.threshold =< lookup.threshold /\ Answered(lookup))
              => Answered(previous)
        /\ (lookup.threshold =< previous.threshold /\ Answered(previous))
              => Answered(lookup)

\* FAQSearcher.search hit at 0.65 and missed at 0.70 for the same query
C13_Witness ==
    /\ previous.fn = "search" /\ lookup.fn = "search"
    /\ previous.threshold = FAQ_THRESHOLD /\ Answered(previous)
    /\ lookup.threshold = SEARCH_THRESHOLD /\ ~Answered(lookup)

\* C30: FAQSearcher.search returns without raising for every corpus, query and
\* threshold; when found is true the match is an entry of the corpus; an empty
\* corpus gives found = false; and of the entries with the greatest similarity
\* the first of the corpus is the match.
C30_SearchTotal ==
    lookup.fn = "search" =>
        /\ ~lookup.raised
        /\ similarity = <<>> => ~lookup.result.found
        /\ lookup.result.found =>
              /\ lookup.result.match \in DOMAIN similarity
              /\ \A j \in DOMAIN similarity :
                    /\ similarity[j] =< similarity[lookup.result.match]
                    /\ similarity[j] = similarity[lookup.result.match]
                          => lookup.result.match =< j

----------------------------------------------------------------------------
(* Properties of the response sanitizer *)

\* the text holds http:// or https://, in any letter case, followed by a
\* character that is not white space
HasUrl(s) ==
    \E i \in DOMAIN s : MatchLength("any", Lower(Drop(s, i - 1))) > 0

\* C19: cleaning what clean returned changes nothing:
\* clean(clean(x)) = clean(x) for every response x.
C19_Idempotent == recleaned # NoText => recleaned = cleaned

\* C20: when the response holds a well-formed HTTP(S) URL, whatever the letter
\* case of its scheme, what clean returns holds none.
C20_NoUrlLeft == (cleaned # NoText /\ HasUrl(response)) => ~HasUrl(cleaned)

\* the length of the match of a video rule at the start of s, or 0, and the
\* rule that matches
VideoRule(s) ==
    IF MatchLength("youtube", s) > 0 THEN "youtube"
    ELSE IF MatchLength("youtu.be", s) > 0 THEN "youtu.be"
    ELSE "none"

VideoUrls(s) == {i \in DOMAIN s : VideoRule(Drop(s, i - 1)) # "none"}

\* the three rules of suspicious_patterns, in their order
Unlinked(s) ==
    Substitute("any", Substitute("youtu.be", Substitute("youtube", s)))

\* C25: in a response without markers that holds one youtube.com/watch or
\* youtu.be URL, the URL is replaced by the text of its own rule, and what
\* stands before and after it comes out as it would without the URL: the
\* catch-all rule takes neither the URL nor any part of the replacement.
C25_VideoRuleFirst ==
    (/\ cleaned # NoText
     /\ \A k \in DOMAIN response : response[k] # 91
     /\ Cardinality(VideoUrls(response)) = 1)
    => \A i \in VideoUrls(response) :
          LET rule == VideoRule(Drop(response, i - 1))
              n == MatchLength(rule, Drop(response, i - 1))
          IN  cleaned =
                Strip(CollapseNewlines(
                    Unlinked(SubSeq(response, 1, i - 1))
                        \o Replacement(rule)
                        \o Unlinked(Drop(response, i - 1 + n))))

----------------------------------------------------------------------------
(* Properties of the request router *)

LastMessage == messages[Len(messages)]

LastCall == trace[Len(trace)]

Calls(name) == {i \in DOMAIN trace : trace[i].call = name}

\* the heading and the stored answer shown for a text the FAQ lookup hits
QuickAnswer(input) ==
    (IF Prepared[input].script = "devanagari"
     THEN QUICK_ANSWER.devanagari ELSE QUICK_ANSWER.other)
        \o Prepared[input].faq_answer.value

\* a step of process_user_message in which the FAQ lookup has hit
FaqHitStep ==
    /\ stage = "idle"
    /\ Len(messages') > Len(messages)
    /\ typed' \in Inputs
    /\ Truthy(Prepared[typed'].faq_answer)

\* C14: when the FAQ lookup hits, the request ends in that step: the stored
\* answer is appended as the assistant message after the user's, the lookup is
\* the only call made (neither wait_if_needed nor the model), and the limiter's
\* call log, its admissions and its frames are left as they were.
C14_FaqHitEnds ==
    [][FaqHitStep =>
         /\ stage' = "idle"
         /\ messages' = messages \o
                <<[role |-> "user", content |-> Prepared[typed'].sanitized],
                  [role |-> "assistant", content |-> QuickAnswer(typed')]>>
         /\ Calls("wait_if_needed")' = {}
         /\ Calls("chat.send_message")' = {}
         /\ calls' = calls
         /\ admissions' = admissions
         /\ pc' = pc]_vars

\* "What is Kancha AI?" (or another stored question) has been answered from the
\* FAQ while the limiter's log holds earlier calls
C14_Witness ==
    /\ stage = "idle"
    /\ outcome = "faq"
    /\ typed \in Inputs
    /\ Truthy(Prepared[typed].faq_answer)
    /\ Len(messages) = 2
    /\ LastMessage = [role |-> "assistant", content |-> QuickAnswer(typed)]
    /\ calls[1] # <<>>
    /\ trace = <<[call |-> "get_answer", arg |-> user_input, reply |-> NoReply]>>

NeedsWebSearch ==
    [query \in {Prepared[input].user_input : input \in Inputs} |->
        needs_web_search(query)]

\* C15: whenever the model is called, get_search_context has been called before
\* it in the same request exactly if needs_web_search holds of the query.
C15_RetrievalBeforeModel ==
    \A i \in Calls("chat.send_message") :
        NeedsWebSearch[user_input]
            <=> \E j \in Calls("get_search_context") : j < i

ERROR_TEXTS ==
    {RATE_LIMIT_MESSAGES[s] : s \in DOMAIN RATE_LIMIT_MESSAGES}
        \cup {TIMEOUT_MESSAGES[s] : s \in DOMAIN TIMEOUT_MESSAGES}

\* one of the texts of error_messages: a fixed one, or a generic heading
\* followed by the start of the exception's text
Categorized(shown) ==
    \/ shown \in ERROR_TEXTS
    \/ \E s \in DOMAIN GENERIC_MESSAGES : HasPrefix(shown, GENERIC_MESSAGES[s])

\* a step in which the model call of process_user_message raises
FaultStep ==
    /\ stage = "wait"
    /\ stage' = "idle"
    /\ LastCall'.call = "chat.send_message"
    /\ LastCall'.reply.kind = "fault"

\* C16: when the model call raises, process_user_message returns all the same,
\* having appended exactly one assistant message, which is one of the texts of
\* error_messages.
C16_FaultCaught ==
    [][FaultStep =>
         /\ outcome' = "failed"
         /\ \A t \in Threads : pc'[t] = "idle"
         /\ Len(messages') = Len(messages) + 1
         /\ SubSeq(messages', 1, Len(messages)) = messages
         /\ LastMessage'.role = "assistant"
         /\ Categorized(LastMessage'.content)]_vars

\* a request has ended with the message of the except branch, after an earlier
\* request was answered
C16_Witness ==
    /\ stage = "idle"
    /\ outcome = "failed"
    /\ LastCall.reply.kind = "fault"
    /\ Len(messages) = 2
    /\ messages[1].role = "user"
    /\ LastMessage.role = "assistant"
    /\ Categorized(LastMessage.content)
    /\ Len(admissions) > 1

\* what format_error looks for, in the whole of the fault the model gave
Marked ==
    [fault \in Faults |->
        [quota |-> \/ Contains(Lower(fault), MARKERS.quota)
                   \/ Contains(Lower(fault), MARKERS.code),
         timeout |-> Contains(Lower(fault), MARKERS.timeout)]]

RateLimitTexts == {RATE_LIMIT_MESSAGES[s] : s \in DOMAIN RATE_LIMIT_MESSAGES}

TimeoutTexts == {TIMEOUT_MESSAGES[s] : s \in DOMAIN TIMEOUT_MESSAGES}

\* C17: after a fault of the model whose text holds "quota" or "429", wherever
\* in the text, the message shown is a rate_limit one; after a fault whose text
\* holds "timeout" and neither of the two, it is a timeout one; and the model
\* was called once in the request.
C17_MarkerAnywhere ==
    outcome = "failed" =>
        /\ Marked[LastCall.reply.text].quota
              => LastMessage.content \in RateLimitTexts
        /\ (Marked[LastCall.reply.text].timeout
                /\ ~Marked[LastCall.reply.text].quota)
              => LastMessage.content \in TimeoutTexts
        /\ Cardinality(Calls("chat.send_message")) = 1

TypedScript == [input \in Inputs |-> detect(input)]

\* the texts of error_messages for a script, error_messages[...].get(script,
\* ...['english'])
TextsFor(s) ==
    {IF s \in DOMAIN RATE_LIMIT_MESSAGES
     THEN RATE_LIMIT_MESSAGES[s] ELSE RATE_LIMIT_MESSAGES["english"],
     IF s \in DOMAIN TIMEOUT_MESSAGES
     THEN TIMEOUT_MESSAGES[s] ELSE TIMEOUT_MESSAGES["english"]}

InRegister(shown, s) ==
    \/ shown \in TextsFor(s)
    \/ HasPrefix(shown, IF s \in DOMAIN GENERIC_MESSAGES
                        THEN GENERIC_MESSAGES[s] ELSE GENERIC_MESSAGES["english"])

\* C18: the message shown after a failure is the one error_messages holds for
\* the script detect assigns to the text as the user typed it, also when the
\* text was sanitized or rewritten by the /summarize command first.
C18_TypedRegister ==
    outcome = "failed" => InRegister(LastMessage.content, TypedScript[typed])

\* C21: no assistant message of the conversation holds an HTTP(S) URL, be it a
\* model answer, an FAQ answer or the message shown after a fault.
C21_NoUrlShown ==
    \A i \in DOMAIN messages :
        messages[i].role = "assistant" => ~HasUrl(messages[i].content)

\* C24: without a key, or with a key the model's service rejects, the model is
\* never called, and no assistant message is one of the texts of
\* error_messages (rate_limit, timeout, generic).
C24_CredentialsStop ==
    api_key # "valid" =>
        /\ Calls("chat.send_message") = {}
        /\ \A i \in DOMAIN messages :
              messages[i].role = "assistant" => ~Categorized(messages[i].content)

\* a step in which process_user_message calls the model
ModelCallStep == stage = "wait" /\ stage' = "idle"

\* C26: the model is called right after the one wait_if_needed of the request
\* has returned, and once in a request; an admission is recorded only inside a
\* request that is waiting to call the model, and such a request goes on only
\* by calling it.
C26_AdmitThenCall ==
    [][/\ ModelCallStep =>
            /\ LastCall.call = "wait_if_needed"
            /\ \E t \in Threads : Returned(t, "wait_if_needed")
            /\ Cardinality(Calls("wait_if_needed")) = 1
            /\ LastCall'.call = "chat.send_message"
            /\ Cardinality(Calls("chat.send_message")') = 1
            /\ admissions' = admissions
       /\ Len(admissions') > Len(admissions) =>
            /\ stage = "wait" /\ stage' = "wait"
            /\ LastCall.call = "wait_if_needed"
            /\ Len(admissions') = Len(admissions) + 1
       /\ (stage = "wait" /\ stage' # "wait") =>
            LastCall'.call = "chat.send_message"]_vars

\* the sixth request sent to the model has been answered, after its
\* wait_if_needed slept
C26_Witness ==
    /\ stage = "idle"
    /\ outcome = "answered"
    /\ Len(trace) = 3
    /\ trace[2].call = "wait_if_needed"
    /\ trace[3].call = "chat.send_message"
    /\ Len(admissions) = API_CALLS_PER_MINUTE + 1
    /\ admissions[Len(admissions)].at > 0

\* C29: between requests, the conversation is made of pairs: each user message
\* is followed by one assistant message.
C29_Paired ==
    stage = "idle" =>
        \A i \in DOMAIN messages :
            IF i % 2 = 1
            THEN /\ messages[i].role = "user"
                 /\ i < Len(messages)
            ELSE messages[i].role = "assistant"

----------------------------------------------------------------------------
(* Properties of the retrieval cascade *)

Returned_search == search_pc = "done"

Failed(call) == call.reply # "page"

\* the provider calls of a whole chain: two in _enhanced_search; one per
\* rewritten query and the three news sites on the political path
ChainLength ==
    IF is_political_query(web_query)
    THEN Len(political_queries(web_query)) + 3 ELSE 2

\* C22: in every provider chain of WebSearcher.search, once a provider call has
\* yielded at least one result no later provider is invoked; and if a provider
\* fails and the next one returns 1 result, search returns exactly that result
\* and the provider after it is never called.
C22_ShortCircuit ==
    /\ \A i \in DOMAIN invoked : invoked[i].found > 0 => i = Len(invoked)
    /\ \A i \in DOMAIN invoked :
           (/\ Returned_search
            /\ i > 1
            /\ \A j \in 1 .. i - 1 : invoked[j].found = 0
            /\ Failed(invoked[i - 1])
            /\ invoked[i].found = 1)
           => /\ results = Entries(invoked[i].provider, 1)
              /\ Len(invoked) = i

\* C23: whatever provider calls fail, WebSearcher.search does not raise; a
\* failing provider does not end the cascade, the next one of the chain is
\* still tried; and when every provider yields nothing search returns [].
C23_GracefulEmptiness ==
    /\ search_pc \in {"idle", "political", "enhanced", "google", "onlinekhabar",
                      "ekantipur", "setopati", "done"}
    /\ (Returned_search /\ Failed(invoked[Len(invoked)]))
           => Len(invoked) = ChainLength
    /\ (Returned_search /\ \A i \in DOMAIN invoked : invoked[i].found = 0)
           => /\ Len(invoked) = ChainLength
              /\ results = <<>>

\* a political search has returned [] after each kind of failure
C23_Witness ==
    /\ Returned_search
    /\ Len(invoked) = 6
    /\ \A i \in DOMAIN invoked : Failed(invoked[i])
    /\ {invoked[i].reply : i \in DOMAIN invoked} = {"exception", "status", "parse"}
    /\ invoked[1].reply = "exception"
    /\ invoked[6].provider = "Setopati"
    /\ results = <<>>

\* C27: every query that search sends down the political path is also flagged
\* by needs_web_search.
C27_PoliticalIsFlagged ==
    search_pc \in {"political", "onlinekhabar", "ekantipur", "setopati"}
        => needs_web_search(web_query)

====
